---------------------------- MODULE Spec2Model ----------------------------
(***************************************************************************)
(* Model of the solar analysis engine (skills/analyze/scripts/analyze.py). *)
(*                                                                         *)
(* The engine is a sequential pipeline: main() loads the hourly rows,      *)
(* enriches every row, and then runs the analysis sections one after the   *)
(* other.  Each section is a pure function of the rows (and of earlier     *)
(* sections' results); it is modelled as an operator, and the step of      *)
(* main() that calls it as an action.                                      *)
(*                                                                         *)
(* Numbers.  Python floats are modelled as exact numbers:                  *)
(*   - energies (kWh) are integers counting hundredths of a kWh;           *)
(*   - state of charge (percent) is an integer number of points;           *)
(*   - a quotient is kept as a pair <<num, den>> with den > 0 and is       *)
(*     compared by cross-multiplication;                                   *)
(*   - round(x, 1) yields an integer counting tenths, round(x, 0) an       *)
(*     integer; both round half to even as Python does.                    *)
(* Dates "YYYY-MM-DD" are triples <<y, m, d>> and hours "HH:00" are the    *)
(* integers 0..23: the exporters zero-pad both, so Python's string order   *)
(* is the numeric order of these.                                          *)
(* None is the empty sequence <<>>; an optional number v is <<v>>.         *)
(***************************************************************************)
EXTENDS Integers, Sequences, FiniteSets, TLC

VARIABLES
    rows,             \* main: the list of row dicts (raw, then enriched)
    config,           \* main: the configuration read from JSON
    pc,               \* main: the next section to run
    filenames,        \* main: the names of the CSV files read
    error,            \* the exception the run ended with, if any
    monthly_totals,   \* main: result of compute_monthly_totals
    ev_days,          \* main: EV day set
    non_ev_days,      \* main: non-EV day set
    ev_info,          \* main: EV detection summary
    hourly,           \* main: result of compute_hourly_patterns
    weekday_weekend,  \* main: result of compute_weekday_weekend
    sizing,           \* main: result of compute_system_sizing
    battery,          \* main: result of compute_battery_analysis
    panels,           \* main: result of compute_additional_panels
    peak_demand,      \* main: result of compute_peak_demand
    anomalies,        \* main: result of compute_anomalies
    bill_impact,      \* main: result of compute_bill_impact
    roi,              \* main: result of compute_roi
    trends,           \* main: result of compute_trends
    battery_health,   \* main: result of compute_battery_health
    projection,       \* main: result of compute_annual_projection
    output,           \* what the run wrote to standard output
    export            \* the exporters' main: the month loop

vars == <<rows, config, pc, filenames, error, monthly_totals, ev_days,
          non_ev_days, ev_info, hourly, weekday_weekend, sizing, battery,
          panels, peak_demand, anomalies, bill_impact, roi, trends,
          battery_health, projection, output, export>>

---------------------------------------------------------------------------
(* Arithmetic helpers *)

Abs(x) == IF x < 0 THEN -x ELSE x

Min(a, b) == IF a < b THEN a ELSE b

Max(a, b) == IF a > b THEN a ELSE b

\* Python round(): the integer nearest to n/d (d > 0), ties to the even one.
RoundDiv(n, d) ==
    LET q == n \div d
        r == n % d
    IN  IF 2 * r < d THEN q
        ELSE IF 2 * r > d THEN q + 1
        ELSE IF q % 2 = 0 THEN q ELSE q + 1

\* round(x, 1) of an energy x given in hundredths: the result counts tenths.
Round1(x) == RoundDiv(x, 10)

\* sum(s), halving the list so that long lists do not nest deeply.
RECURSIVE SumSeq(_)
SumSeq(s) ==
    IF s = <<>> THEN 0
    ELSE IF Len(s) = 1 THEN s[1]
    ELSE LET h == Len(s) \div 2
         IN  SumSeq(SubSeq(s, 1, h)) + SumSeq(SubSeq(s, h + 1, Len(s)))

\* The sum of f over the set S.
RECURSIVE SumOver(_, _)
SumOver(f, S) ==
    IF S = {} THEN 0
    ELSE LET d == CHOOSE x \in S : TRUE
         IN  f[d] + SumOver(f, S \ {d})

RECURSIVE Gcd(_, _)
Gcd(a, b) == IF b = 0 THEN a ELSE Gcd(b, a % b)

\* The quotient n/d (d > 0) in lowest terms.
Rat(n, d) == LET g == Gcd(Abs(n), d) IN <<n \div g, d \div g>>

\* [r[field] for r in rs]
Column(rs, field) == [i \in DOMAIN rs |-> rs[i][field]]

Range(s) == {s[i] : i \in DOMAIN s}

\* f as an explicit table of its values, each computed once.
Tabulated(f) == f @@ <<>>

\* Order of two quotients a = <<n, d>>, b = <<n, d>> with positive d.
RatLess(a, b) == a[1] * b[2] < b[1] * a[2]

\* String order of two zero-padded ISO dates.
DateLess(a, b) ==
    \/ a[1] < b[1]
    \/ a[1] = b[1] /\ a[2] < b[2]
    \/ a[1] = b[1] /\ a[2] = b[2] /\ a[3] < b[3]

---------------------------------------------------------------------------
(* Helpers of analyze.py *)

\* median that takes the upper middle value of an even number of values.
median_upper_middle(values) ==
    IF values = <<>> THEN <<0, 1>>
    ELSE SortSeq(values, RatLess)[(Len(values) \div 2) + 1]

\* median(values) over quotients; 0.0 for the empty list.
median(values) ==
    IF values = <<>> THEN <<0, 1>>
    ELSE LET s == SortSeq(values, RatLess)
             n == Len(s)
         IN  IF n % 2 = 1 THEN s[(n \div 2) + 1]
             ELSE LET a == s[n \div 2]
                      b == s[(n \div 2) + 1]
                  IN  Rat(a[1] * b[2] + b[1] * a[2], 2 * a[2] * b[2])

\* mean(values) of integers, as a quotient; 0.0 for the empty list.
mean(values) ==
    IF values = <<>> THEN <<0, 1>> ELSE <<SumSeq(values), Len(values)>>

\* The largest integer whose square is at most n (n >= 0).
RECURSIVE Isqrt(_)
Isqrt(n) ==
    IF n < 2 THEN n
    ELSE LET s == 2 * Isqrt(n \div 4)
         IN  IF (s + 1) * (s + 1) <= n THEN s + 1 ELSE s

RECURSIVE GcdAll(_)
GcdAll(s) == IF s = <<>> THEN 0 ELSE Gcd(Abs(Head(s)), GcdAll(Tail(s)))

\* The standard deviation 0.0 of fewer than two values.
NoDeviation == [scale |-> 0, sum_sq |-> 0, n |-> 2]

\* stdev(values) of integers.  With m the mean, v - m = (n * v - sum) / n;
\* the n * v - sum are g times small integers whose squares add up to
\* sum_sq, and the result stands for
\*     sqrt(sum((v - m) ** 2) / (n - 1)) = (scale / n) * sqrt(sum_sq / (n - 1)).
stdev(values) ==
    IF Len(values) < 2 THEN NoDeviation
    ELSE LET m == mean(values)
             n == Len(values)
             dev == [i \in DOMAIN values |-> n * values[i] - m[1]]
             g == GcdAll(dev)
         IN  IF g = 0 THEN NoDeviation
             ELSE [scale |-> g,
                   sum_sq |-> SumSeq([i \in DOMAIN dev |->
                                         (dev[i] \div g) * (dev[i] \div g)]),
                   n |-> n]

\* round(sd, 1) for a standard deviation of hundredths: the result counts
\* tenths.  With y = sd / 10, round(y) is found from floor(2 * y), which is
\* the integer square root of floor(sd ** 2 / 25).
RoundStd1(sd) ==
    LET den == 25 * sd.n * sd.n * (sd.n - 1)
        c == Gcd(sd.scale * sd.scale, den)
        num == ((sd.scale * sd.scale) \div c) * sd.sum_sq
        q == num \div (den \div c)
        f == Isqrt(q)
        exact == num % (den \div c) = 0 /\ f * f = q
    IN  IF f % 2 = 0 THEN f \div 2
        ELSE IF exact /\ ((f - 1) \div 2) % 2 = 0 THEN (f - 1) \div 2
        ELSE (f + 1) \div 2

row_month(r) == SubSeq(r.Date, 1, 2)

row_day(r) == SubSeq(r.Date, 1, 3)

row_hour(r) == r.Hour

\* key_fn(r) for the key function of that name.
key_of(r, key_fn) ==
    CASE key_fn = "row_month" -> row_month(r)
      [] key_fn = "row_day" -> row_day(r)
      [] key_fn = "row_hour" -> row_hour(r)

\* group_by(rows, key_fn): key -> the rows with that key, in input order.
group_by(rs, key_fn) ==
    [k \in {key_of(rs[i], key_fn) : i \in DOMAIN rs} |->
        SelectSeq(rs, LAMBDA r : key_of(r, key_fn) = k)]

\* A list without its repeats, each element at its first position.
RECURSIVE first_seen(_)
first_seen(ks) ==
    IF Len(ks) <= 1 THEN ks
    ELSE LET h == Len(ks) \div 2
             left == first_seen(SubSeq(ks, 1, h))
             right == first_seen(SubSeq(ks, h + 1, Len(ks)))
         IN  left \o SelectSeq(right, LAMBDA k : k \notin Range(left))

\* The keys of group_by(rows, key_fn) in dict (first appearance) order.
group_keys(rs, key_fn) ==
    first_seen([i \in DOMAIN rs |-> key_of(rs[i], key_fn)])

\* sorted(keys) for dates.
sorted_dates(keys) == SortSeq(keys, DateLess)

\* sorted(S) for a set of dates.
RECURSIVE sorted_date_set(_)
sorted_date_set(S) ==
    IF S = {} THEN <<>>
    ELSE LET least == CHOOSE x \in S : \A y \in S \ {x} : DateLess(x, y)
         IN  <<least>> \o sorted_date_set(S \ {least})

\* enrich with the export taken as the magnitude of the net grid energy.
enrich_abs_export(r) ==
    [Load_kWh |-> r.GridLoad_Energy_kWh + r.BackupLoad_Energy_kWh,
     Load_W |-> r.Avg_GridLoad_W + r.Avg_BackupLoad_W,
     Grid_Import_kWh |-> Abs(Min(0, r.Grid_Energy_kWh)),
     Grid_Export_kWh |-> Abs(r.Grid_Energy_kWh),
     Battery_Charge_kWh |-> Max(0, r.Battery_Energy_kWh),
     Battery_Discharge_kWh |-> Abs(Min(0, r.Battery_Energy_kWh))] @@ r

\* enrich that also turns the signed grid energy it read into export-positive
\* import-negative form by flipping its sign in place.
enrich_flipping_grid(r) ==
    [Grid_Energy_kWh |-> 0 - r.Grid_Energy_kWh,
     Load_kWh |-> r.GridLoad_Energy_kWh + r.BackupLoad_Energy_kWh,
     Load_W |-> r.Avg_GridLoad_W + r.Avg_BackupLoad_W,
     Grid_Import_kWh |-> Abs(Min(0, r.Grid_Energy_kWh)),
     Grid_Export_kWh |-> Max(0, r.Grid_Energy_kWh),
     Battery_Charge_kWh |-> Max(0, r.Battery_Energy_kWh),
     Battery_Discharge_kWh |-> Abs(Min(0, r.Battery_Energy_kWh))] @@ r

\* enrich(r): the derived fields are (re)written, the raw fields kept.
enrich(r) ==
    [Load_kWh |-> r.GridLoad_Energy_kWh + r.BackupLoad_Energy_kWh,
     Load_W |-> r.Avg_GridLoad_W + r.Avg_BackupLoad_W,
     Grid_Import_kWh |-> Abs(Min(0, r.Grid_Energy_kWh)),
     Grid_Export_kWh |-> Max(0, r.Grid_Energy_kWh),
     Battery_Charge_kWh |-> Max(0, r.Battery_Energy_kWh),
     Battery_Discharge_kWh |-> Abs(Min(0, r.Battery_Energy_kWh))] @@ r

---------------------------------------------------------------------------
(* 3a. compute_monthly_totals *)

\* self_consumed with the export side of the meter subtracted twice over.
self_consumed_plus_import(total_load, grid_import) == total_load + grid_import

\* self_consumed of one month, before rounding.
self_consumed(total_load, grid_import) == total_load - grid_import

\* sc_rate of one month, rounded to one decimal (tenths of a percent).
self_consumption_rate(sc, total_pv) ==
    IF total_pv > 0 THEN RoundDiv(sc * 1000, total_pv) ELSE 0

\* ss of one month, rounded to one decimal, or None.
self_sufficiency(grid_import, total_load) ==
    IF total_load > 0
    THEN <<RoundDiv((total_load - grid_import) * 1000, total_load)>>
    ELSE <<>>

month_aggregate(mrows) ==
    LET total_pv == SumSeq(Column(mrows, "PV_Energy_kWh"))
        total_load == SumSeq(Column(mrows, "Load_kWh"))
        grid_export == SumSeq(Column(mrows, "Grid_Export_kWh"))
        grid_import == SumSeq(Column(mrows, "Grid_Import_kWh"))
        battery_charge == SumSeq(Column(mrows, "Battery_Charge_kWh"))
        battery_discharge == SumSeq(Column(mrows, "Battery_Discharge_kWh"))
        sc == self_consumed(total_load, grid_import)
    IN  [total_pv |-> Round1(total_pv),
         total_load |-> Round1(total_load),
         grid_export |-> Round1(grid_export),
         grid_import |-> Round1(grid_import),
         battery_charge |-> Round1(battery_charge),
         battery_discharge |-> Round1(battery_discharge),
         self_consumed |-> Round1(sc),
         self_consumption_rate |-> self_consumption_rate(sc, total_pv),
         self_sufficiency |-> self_sufficiency(grid_import, total_load),
         days |-> Cardinality({row_day(mrows[i]) : i \in DOMAIN mrows})]

compute_monthly_totals(rs) ==
    LET by_month == group_by(rs, "row_month")
    IN  [m \in DOMAIN by_month |-> month_aggregate(by_month[m])]

---------------------------------------------------------------------------
(* 3b. detect_ev_days *)

\* A full day taken to start at 20 rows.
is_full_day_from_20(drows) == Len(drows) >= 20

\* A day's rows make a full day: len(drows) > 20.
is_full_day(drows) == Len(drows) > 20

\* daily_loads: total load of every full day.
daily_loads(rs) ==
    LET by_day == group_by(rs, "row_day")
    IN  [d \in {x \in DOMAIN by_day : is_full_day(by_day[x])} |->
            SumSeq(Column(by_day[d], "Load_kWh"))]

\* The threshold without its floor of 8 kWh.
is_ev_load_no_floor(load, avg_load) ==
    load * avg_load[2] * 10 > avg_load[1] * 10 + 3 * avg_load[1]

\* load > avg_load + threshold, where threshold = max(8, avg_load * 0.3);
\* avg_load is a quotient <<total, n>> and both sides are multiplied by 10 * n.
is_ev_load(load, avg_load) ==
    load * avg_load[2] * 10
        > avg_load[1] * 10 + Max(8000 * avg_load[2], 3 * avg_load[1])

\* list(f.values()) for the days in `days`.
values_of(f, days) ==
    LET order == sorted_date_set(days)
    IN  SubSeq([k \in DOMAIN order |-> f[order[k]]], 1, Len(order))

detect_ev_days(rs) ==
    LET loads == daily_loads(rs)
        days == DOMAIN loads
        avg_load == mean(values_of(loads, days))
        threshold == Max(8000 * avg_load[2], 3 * avg_load[1])
        ev == {d \in days : is_ev_load(loads[d], avg_load)}
        non_ev == days \ ev
        ev_avg == mean(values_of(loads, ev))
        non_ev_avg == mean(values_of(loads, non_ev))
        info == [avg_daily_load |-> RoundDiv(avg_load[1], 10 * avg_load[2]),
                 threshold |-> RoundDiv(threshold, 100 * avg_load[2]),
                 ev_day_count |-> Cardinality(ev),
                 non_ev_day_count |-> Cardinality(non_ev),
                 total_full_days |-> Cardinality(days),
                 ev_dates |-> sorted_date_set(ev)]
    IN  IF days = {}
        THEN [ev_days |-> {}, non_ev_days |-> {}, info |-> <<>>]
        ELSE [ev_days |-> ev, non_ev_days |-> non_ev,
              info |-> info
                  @@ (IF ev = {} THEN <<>>
                      ELSE [ev_avg_load |->
                               RoundDiv(ev_avg[1], 10 * ev_avg[2])])
                  @@ (IF non_ev = {} THEN <<>>
                      ELSE [non_ev_avg_load |->
                               RoundDiv(non_ev_avg[1], 10 * non_ev_avg[2])])]

\* main, has_ev false: every full day is a non-EV day.
all_full_days(rs) ==
    LET by_day == group_by(rs, "row_day")
    IN  {d \in DOMAIN by_day : is_full_day(by_day[d])}

---------------------------------------------------------------------------
(* 3d. compute_system_sizing *)
(* Powers are whole watts; pv_kwp and inverter_kw count hundredths of a kW. *)

\* max(values) of a non-empty list.
MaxOf(values) == CHOOSE x \in Range(values) : \A y \in Range(values) : y <= x

\* [sum(r[field] for r in drows) for drows in by_day.values()]
daily_sums(rs, field) ==
    LET by_day == group_by(rs, "row_day")
        days == group_keys(rs, "row_day")
    IN  SubSeq([k \in DOMAIN days |-> SumSeq(Column(by_day[days[k]], field))],
               1, Len(days))

\* daily_pv of compute_system_sizing: one sum for every day of by_day.
daily_pv_of(rs) == daily_sums(rs, "PV_Energy_kWh")

\* The figures of one month in monthly_sizing.
month_sizing(mrows, pv_kwp) ==
    LET m_avg == mean(daily_sums(mrows, "PV_Energy_kWh"))
        m_total_load == SumSeq(Column(mrows, "Load_kWh"))
        m_total_import == SumSeq(Column(mrows, "Grid_Import_kWh"))
    IN  [avg_daily_pv |-> RoundDiv(m_avg[1], 10 * m_avg[2]),
         peak_sun_hours |-> RoundDiv(m_avg[1] * 10, m_avg[2] * pv_kwp),
         capacity_factor |-> RoundDiv(m_avg[1] * 1000, m_avg[2] * pv_kwp * 24),
         grid_dependence |->
             IF m_total_load > 0
             THEN RoundDiv(m_total_import * 100, m_total_load) ELSE 0]

\* compute_system_sizing(rows, pv_kwp, inverter_kw, non_ev_days, ev_days).
\* avg_daily_pv and peak_sun_hours count hundredths, capacity_factor tenths
\* of a percent, pv_load_ratio and dc_ac_ratio hundredths.
compute_system_sizing(rs, pv_kwp, inverter_kw, non_ev) ==
    LET avg_daily_pv == mean(daily_pv_of(rs))
        max_pv_w == MaxOf(Column(rs, "Avg_PV_W"))
        nameplate_w == pv_kwp * 10
        inverter_ac_w == inverter_kw * 10
        non_ev_rows == SelectSeq(rs, LAMBDA r : row_day(r) \in non_ev)
        non_ev_pv == SumSeq(Column(non_ev_rows, "PV_Energy_kWh"))
        non_ev_load == SumSeq(Column(non_ev_rows, "Load_kWh"))
        by_month == group_by(rs, "row_month")
    IN  [avg_daily_pv |-> RoundDiv(avg_daily_pv[1], avg_daily_pv[2]),
         capacity_factor |-> RoundDiv(avg_daily_pv[1] * 1000,
                                      avg_daily_pv[2] * pv_kwp * 24),
         peak_sun_hours |-> RoundDiv(avg_daily_pv[1] * 100,
                                     avg_daily_pv[2] * pv_kwp),
         max_pv_w |-> max_pv_w,
         nameplate_w |-> nameplate_w,
         inverter_ac_w |-> inverter_ac_w,
         inverter_kw |-> inverter_kw,
         dc_ac_ratio |-> RoundDiv(pv_kwp * 100, inverter_kw),
         max_pv_pct_nameplate |-> RoundDiv(max_pv_w * 100, nameplate_w),
         max_pv_pct_inverter |-> RoundDiv(max_pv_w * 100, inverter_ac_w),
         panel_clip_hours |->
             Cardinality({i \in DOMAIN rs :
                             rs[i].Avg_PV_W * 100 > nameplate_w * 85}),
         inverter_clip_hours |->
             Cardinality({i \in DOMAIN rs : rs[i].Avg_PV_W > inverter_ac_w}),
         inverter_limited |-> max_pv_w * 100 >= inverter_ac_w * 95,
         pv_load_ratio |->
             IF non_ev_load > 0 THEN RoundDiv(non_ev_pv * 100, non_ev_load)
             ELSE 0,
         monthly |-> [m \in DOMAIN by_month |->
                         month_sizing(by_month[m], pv_kwp)]]

---------------------------------------------------------------------------
(* 3e. compute_battery_analysis: usable capacity *)

\* s[i] with Python's indices, which start at 0.
At(s, i) == s[i + 1]

\* sorted(drows, key=Hour): stable, rows of equal hour keep their order.
RECURSIVE sort_by_hour(_)
sort_by_hour(drows) ==
    IF drows = <<>> THEN <<>>
    ELSE LET init == sort_by_hour(SubSeq(drows, 1, Len(drows) - 1))
             r == drows[Len(drows)]
             k == Cardinality({i \in DOMAIN init : init[i].Hour <= r.Hour})
         IN  SubSeq(init, 1, k) \o <<r>> \o SubSeq(init, k + 1, Len(init))

\* The inner loop ending a run at the first pair of equal values.
RECURSIVE run_end_strict(_, _)
run_end_strict(soc_vals, j) ==
    IF j < Len(soc_vals) - 1 /\ At(soc_vals, j) > At(soc_vals, j + 1)
    THEN run_end_strict(soc_vals, j + 1)
    ELSE j

\* The inner loop: while j < len - 1 and soc[j] >= soc[j + 1]: j += 1
RECURSIVE run_end(_, _)
run_end(soc_vals, j) ==
    IF j < Len(soc_vals) - 1 /\ At(soc_vals, j) >= At(soc_vals, j + 1)
    THEN run_end(soc_vals, j + 1)
    ELSE j

\* The outer loop from index i with the best run found so far.
RECURSIVE soc_scan(_, _, _)
soc_scan(soc_vals, i, best) ==
    IF i < Len(soc_vals) - 1
    THEN IF At(soc_vals, i) > At(soc_vals, i + 1)
         THEN LET j == run_end(soc_vals, i + 1)
                  drop == At(soc_vals, i) - At(soc_vals, j)
              IN  soc_scan(soc_vals, j,
                           IF drop > best.best_drop
                           THEN [best_start |-> i, best_end |-> j,
                                 best_drop |-> drop]
                           ELSE best)
         ELSE soc_scan(soc_vals, i + 1, best)
    ELSE best

\* The scan of one day: best_start = best_end = 0, best_drop = 0, i = 0.
best_run(soc_vals) ==
    soc_scan(soc_vals, 0, [best_start |-> 0, best_end |-> 0, best_drop |-> 0])

\* sum(discharge_vals[best_start : best_end + 1])
discharge_in_window(discharge_vals, best) ==
    SumSeq(SubSeq(discharge_vals, best.best_start + 1, best.best_end + 1))

\* The estimates one day appends to usable_estimates: none or one quotient
\* est = discharge_in_window / (best_drop / 100).
day_estimates(drows) ==
    LET drows_sorted == sort_by_hour(drows)
        soc_vals == Column(drows_sorted, "Avg_SOC_Pct")
        discharge_vals == Column(drows_sorted, "Battery_Discharge_kWh")
        best == best_run(soc_vals)
        window == discharge_in_window(discharge_vals, best)
    IN  IF best.best_drop > 30 /\ best.best_drop > 0 /\ window > 0
        THEN <<Rat(window * 100, best.best_drop)>>
        ELSE <<>>

\* usable_estimates after the loop over by_day.items(), days in dict order.
RECURSIVE estimates_of(_, _)
estimates_of(by_day, days) ==
    IF days = <<>> THEN <<>>
    ELSE day_estimates(by_day[Head(days)]) \o estimates_of(by_day, Tail(days))

usable_estimates(rs) ==
    estimates_of(group_by(rs, "row_day"), group_keys(rs, "row_day"))

\* estimated_usable, as a quotient of hundredths of a kWh.
estimated_usable(estimates, nominal_kwh) ==
    IF estimates /= <<>> THEN median(estimates) ELSE <<nominal_kwh * 9, 10>>

\* The round-trip efficiency is computed for a month with any charge at all.
has_charge_or_none(ch) == ch >= 0

\* "if ch > 0": the month's discharge is divided by its charge.
has_charge(ch) == ch > 0

\* One month's entry of monthly_efficiency; efficiency counts tenths of a
\* percent.
month_efficiency(mrows) ==
    LET ch == SumSeq(Column(mrows, "Battery_Charge_kWh"))
        dis == SumSeq(Column(mrows, "Battery_Discharge_kWh"))
    IN  [efficiency |-> IF has_charge(ch) THEN RoundDiv(dis * 1000, ch) ELSE 0,
         charge |-> Round1(ch),
         discharge |-> Round1(dis)]

monthly_efficiency(rs) ==
    LET by_month == group_by(rs, "row_month")
    IN  [m \in DOMAIN by_month |-> month_efficiency(by_month[m])]

\* The exception compute_battery_analysis ends with, if any: the division by
\* nominal_kwh is unguarded, the one by a month's charge is guarded.
battery_analysis_raises(rs, nominal_kwh) ==
    LET by_month == group_by(rs, "row_month")
        charge == [m \in DOMAIN by_month |->
                      SumSeq(Column(by_month[m], "Battery_Charge_kWh"))]
    IN  IF nominal_kwh = 0 THEN <<"ZeroDivisionError">>
        ELSE IF \E m \in DOMAIN by_month :
                    has_charge(charge[m]) /\ charge[m] = 0
             THEN <<"ZeroDivisionError">>
             ELSE <<>>

compute_battery_analysis(rs, nominal_kwh) ==
    LET by_day == group_by(rs, "row_day")
        estimates == usable_estimates(rs)
        usable == estimated_usable(estimates, nominal_kwh)
    IN  [nominal_kwh |-> Round1(nominal_kwh),
         estimated_usable_kwh |-> RoundDiv(usable[1], usable[2] * 10),
         usable_pct |-> RoundDiv(usable[1] * 100, usable[2] * nominal_kwh),
         usable_estimate_days |-> Len(estimates),
         avg_discharge |->
             LET all_discharges == daily_sums(rs, "Battery_Discharge_kWh")
             IN  IF all_discharges = <<>> THEN 0
                 ELSE RoundDiv(SumSeq(all_discharges),
                               10 * Len(all_discharges)),
         monthly_efficiency |-> monthly_efficiency(rs),
         \* the scan's locals at the end of each day's loop
         best_run |-> [d \in DOMAIN by_day |->
                          best_run(Column(sort_by_hour(by_day[d]),
                                          "Avg_SOC_Pct"))]]

---------------------------------------------------------------------------
(* 3f. compute_additional_panels *)
(* Rates count tenths of a currency unit per kWh and feedin_ratio tenths.  *)
(* The energy added to an hour is PV * (scale - 1) = PV * additional_kwp / *)
(* current_kwp; the added energies are kept multiplied by current_kwp.     *)

\* offset without the cap at the hour's import.
offset_uncapped(extra_pv, grid_import) == extra_pv

\* offset = min(extra_pv, r["Grid_Import_kWh"]) when the hour imports; an
\* hour without import adds all of extra_pv to the export.
offset_of(extra_pv, grid_import) ==
    IF grid_import > 0 THEN Min(extra_pv, grid_import) ELSE 0

\* The loop over rows: extra_self_consumed and extra_exported, both
\* multiplied by current_kwp.
panel_totals(rs, current_kwp, additional_kwp) ==
    LET extra_pv == [i \in DOMAIN rs |-> rs[i].PV_Energy_kWh * additional_kwp]
        offset == [i \in DOMAIN rs |->
                      offset_of(extra_pv[i],
                                rs[i].Grid_Import_kWh * current_kwp)]
    IN  [extra_self_consumed |-> SumSeq(offset),
         extra_exported |-> SumSeq([i \in DOMAIN rs |->
                                       extra_pv[i] - offset[i]])]

\* compute_additional_panels(rows, current_kwp, additional_kwp,
\* feedin_ratio, import_rate); None when additional_kwp <= 0.  Energies are
\* reported in tenths of a kWh and the savings in tenths of a currency unit;
\* `totals` holds the two sums before rounding as quotients.
compute_additional_panels(rs, current_kwp, additional_kwp, feedin_ratio, import_rate) ==
    LET t == panel_totals(rs, current_kwp, additional_kwp)
        num_days == Cardinality(all_full_days(rs))
    IN  IF additional_kwp <= 0 THEN <<>>
        ELSE [additional_kwp |-> additional_kwp,
              total_kwp |-> current_kwp + additional_kwp,
              extra_self_consumed_total |->
                  RoundDiv(t.extra_self_consumed, current_kwp * 10),
              extra_exported_total |->
                  RoundDiv(t.extra_exported, current_kwp * 10),
              extra_self_consumed_daily |->
                  IF num_days > 0
                  THEN RoundDiv(t.extra_self_consumed,
                                current_kwp * 10 * num_days)
                  ELSE 0,
              extra_exported_daily |->
                  IF num_days > 0
                  THEN RoundDiv(t.extra_exported, current_kwp * 10 * num_days)
                  ELSE 0,
              extra_daily_savings |->
                  IF num_days > 0
                  THEN RoundDiv(t.extra_self_consumed * import_rate * 10
                                    + t.extra_exported * import_rate
                                          * feedin_ratio,
                                current_kwp * 1000 * num_days)
                  ELSE 0,
              totals |-> [extra_self_consumed |->
                              <<t.extra_self_consumed, current_kwp>>,
                          extra_exported |->
                              <<t.extra_exported, current_kwp>>]]

---------------------------------------------------------------------------
(* 3h. compute_anomalies: PV anomalies *)
(* The day's PV total is reported as round(sum(...), 1), the sum taken in   *)
(* the order of the records.  Where the exact total lies halfway between    *)
(* two tenths, the reported tenth depends on the binary64 value of the sum, *)
(* which is computed here bit by bit: a value is a sequence of 70 bits, 10  *)
(* before the binary point and 60 after it (bit i weighs 2^(10 - i)), of    *)
(* which a float holds the 53 from its leading bit on.  Energies are not    *)
(* negative and stay below 1024 kWh.                                        *)

float_positions == 1..70

\* The n bits of the whole number q < 2^n.
int_bits(q, n) == Tabulated([i \in 1..n |-> (q \div (2 ^ (n - i))) % 2])

\* What is left of r / 100, r < 100, after its first 15 bits behind the
\* binary point, as a count of 100ths of the last bit's weight.
fraction_rest(r) == (r * (2 ^ 15)) % 100

\* The first 15 bits behind the binary point of r / 100.
fraction_bits(r) == int_bits((r * (2 ^ 15)) \div 100, 15)

\* The decimal h / 100 in binary, cut after 60 fraction bits, and whether
\* anything was cut off.
expansion(h) ==
    LET r0 == h % 100
        r1 == fraction_rest(r0)
        r2 == fraction_rest(r1)
        r3 == fraction_rest(r2)
    IN  [bits |-> int_bits(h \div 100, 10) \o fraction_bits(r0)
                      \o fraction_bits(r1) \o fraction_bits(r2)
                      \o fraction_bits(r3),
         inexact |-> fraction_rest(r3) /= 0]

\* The carry into position i of the sum of a and b: a position behind i
\* where both have a bit, and one of them has a bit everywhere in between.
carries(a, b, i) ==
    \E j \in (i + 1)..70 :
        /\ a[j] + b[j] = 2
        /\ \A k \in (i + 1)..(j - 1) : a[k] + b[k] = 1

\* The exact sum of two bit sequences.
add_bits(a, b) ==
    Tabulated([i \in float_positions |->
                  (a[i] + b[i] + (IF carries(a, b, i) THEN 1 ELSE 0)) % 2])

\* The position of the leading bit, 0 for zero.
leading(v) ==
    IF \A i \in float_positions : v[i] = 0 THEN 0
    ELSE CHOOSE i \in float_positions :
             v[i] = 1 /\ \A j \in 1..(i - 1) : v[j] = 0

\* Rounding to the nearest float, ties to the even one: v to 53 bits, where
\* sticky says that the exact value lies above v.
round53(v, sticky) ==
    LET last == leading(v) + 52
        guard == IF last < 70 THEN v[last + 1] ELSE 0
        rest == sticky \/ \E i \in (last + 2)..70 : v[i] = 1
        kept == Tabulated([i \in float_positions |->
                              IF i <= last THEN v[i] ELSE 0])
        ulp == Tabulated([i \in float_positions |->
                             IF i = last THEN 1 ELSE 0])
    IN  IF leading(v) = 0 \/ last > 70 THEN v
        ELSE IF guard = 1 /\ (rest \/ v[last] = 1) THEN add_bits(kept, ulp)
        ELSE kept

\* float(s) for the decimal string s of h hundredths.
float(h) == LET x == expansion(h) IN round53(x.bits, x.inexact)

\* a + b of two floats.
float_add(a, b) == round53(add_bits(a, b), FALSE)

\* sum(values) of floats: 0 + values[0] + values[1] + ..., from the left.
RECURSIVE float_sum_from(_, _)
float_sum_from(acc, values) ==
    IF values = <<>> THEN acc
    ELSE float_sum_from(float_add(acc, float(Head(values))), Tail(values))

float_sum(values) ==
    float_sum_from(Tabulated([i \in float_positions |-> 0]), values)

\* The sign of x - h / 100 for a float x and the decimal h / 100.
float_cmp_decimal(x, h) ==
    LET e == expansion(h)
        differ == {i \in float_positions : x[i] /= e.bits[i]}
        first == CHOOSE i \in differ : \A j \in differ : i <= j
    IN  IF differ = {} THEN (IF e.inexact THEN -1 ELSE 0)
        ELSE IF x[first] > e.bits[first] THEN 1 ELSE -1

\* round(sum(values), 1) in tenths: the tenth nearest to the float sum.  The
\* float sum differs from the exact total by far less than a hundredth, so
\* it decides the tenth only where the exact total ends in 5 hundredths.
round_sum1(values) ==
    LET total == SumSeq(values)
        side == float_cmp_decimal(float_sum(values), total)
    IN  IF total % 10 /= 5 THEN Round1(total)
        ELSE IF side > 0 THEN (total + 5) \div 10
        ELSE IF side < 0 THEN (total - 5) \div 10
        ELSE Round1(total)


\* The window shifted by one day, so that it ends with the day itself.
window_days_with_day(sorted_days, i) ==
    LET window_start == Max(0, i - 14)
    IN  SubSeq(sorted_days, window_start + 2, i + 1)

\* sorted_days[window_start:i] for the day at index i (from 0).
window_days(sorted_days, i) ==
    LET window_start == Max(0, i - 14)
    IN  SubSeq(sorted_days, window_start + 1, i)

\* The test with a day flagged only below 10% of the rolling mean.
is_pv_anomaly_below_tenth(day_pv, ref_mean) ==
    ref_mean[1] > 0 /\ day_pv * ref_mean[2] * 10 < ref_mean[1]

\* ref_mean > 0 and daily_pv[day] < ref_mean * 0.6, ref_mean a quotient.
is_pv_anomaly(day_pv, ref_mean) ==
    ref_mean[1] > 0 /\ day_pv * ref_mean[2] * 10 < ref_mean[1] * 6

\* The entry appended for the day at index i, if any.
pv_anomaly_at(sorted_days, daily_pv, reported_pv, i) ==
    LET day == At(sorted_days, i)
        window == window_days(sorted_days, i)
        ref_mean == mean(SubSeq([j \in DOMAIN window |-> daily_pv[window[j]]],
                                1, Len(window)))
    IN  IF i < 3 THEN <<>>
        ELSE IF is_pv_anomaly(daily_pv[day], ref_mean)
        THEN <<[date |-> day,
                daily_pv |-> reported_pv[day],
                expected |-> RoundDiv(ref_mean[1], 10 * ref_mean[2]),
                deviation_pct |->
                    RoundDiv((daily_pv[day] * ref_mean[2] - ref_mean[1]) * 100,
                             ref_mean[1])]>>
        ELSE <<>>

RECURSIVE pv_anomalies_from(_, _, _, _)
pv_anomalies_from(sorted_days, daily_pv, reported_pv, i) ==
    IF i >= Len(sorted_days) THEN <<>>
    ELSE pv_anomaly_at(sorted_days, daily_pv, reported_pv, i)
            \o pv_anomalies_from(sorted_days, daily_pv, reported_pv, i + 1)

\* The threshold with one and a half standard deviations instead of two.
is_load_anomaly_three_halves(day_load, load_mean, load_std) ==
    LET d == day_load * load_mean[2] - load_mean[1]
        k == Gcd(Abs(d), load_std.scale)
    IN  IF load_std.scale = 0 THEN d > 0
        ELSE /\ d > 0
             /\ 4 * (d \div k) * (d \div k) * (load_std.n - 1)
                    > 9 * (load_std.scale \div k) * (load_std.scale \div k)
                          * load_std.sum_sq

\* The threshold with one standard deviation instead of two.
is_load_anomaly_one_std(day_load, load_mean, load_std) ==
    LET d == day_load * load_mean[2] - load_mean[1]
        k == Gcd(Abs(d), load_std.scale)
    IN  IF load_std.scale = 0 THEN d > 0
        ELSE /\ d > 0
             /\ (d \div k) * (d \div k) * (load_std.n - 1)
                    > (load_std.scale \div k) * (load_std.scale \div k)
                          * load_std.sum_sq

\* day_load > threshold, where threshold = load_mean + 2 * load_std: the
\* difference d / n of day_load and the mean is positive and its square is
\* above 4 * load_std ** 2.
is_load_anomaly(day_load, load_mean, load_std) ==
    LET d == day_load * load_mean[2] - load_mean[1]
        k == Gcd(Abs(d), load_std.scale)
    IN  IF load_std.scale = 0 THEN d > 0
        ELSE /\ d > 0
             /\ (d \div k) * (d \div k) * (load_std.n - 1)
                    > 4 * (load_std.scale \div k) * (load_std.scale \div k)
                          * load_std.sum_sq

\* The days d of non_ev_days with d in by_day and len(by_day[d]) > 20.
qualifying_days(by_day, non_ev) ==
    {d \in non_ev \cap DOMAIN by_day : is_full_day(by_day[d])}

\* The days for which the load loop appends an entry.
load_anomaly_days(rs, non_ev) ==
    LET by_day == group_by(rs, "row_day")
        days == qualifying_days(by_day, non_ev)
        day_load == [d \in days |-> SumSeq(Column(by_day[d], "Load_kWh"))]
        non_ev_loads == values_of(day_load, days)
        load_mean == mean(non_ev_loads)
        load_std == stdev(non_ev_loads)
    IN  IF Len(non_ev_loads) >= 5
        THEN {d \in days : is_load_anomaly(day_load[d], load_mean, load_std)}
        ELSE {}

\* The orders in which a loop over the set S can visit its elements: a set
\* of date strings is iterated in hash order, which differs between runs.
iteration_orders(S) ==
    {f \in [1..Cardinality(S) -> S] :
        \A i, j \in DOMAIN f : f[i] = f[j] => i = j}

\* load_anomalies, the loop over non_ev_days visiting the reported days in
\* the given order.
load_anomalies(rs, non_ev, order) ==
    LET by_day == group_by(rs, "row_day")
        days == qualifying_days(by_day, non_ev)
        day_load == [d \in days |-> SumSeq(Column(by_day[d], "Load_kWh"))]
        non_ev_loads == values_of(day_load, days)
        load_mean == mean(non_ev_loads)
        load_std == stdev(non_ev_loads)
    IN  [k \in DOMAIN order |->
            [date |-> order[k],
             daily_load |-> Round1(day_load[order[k]]),
             expected_mean |-> RoundDiv(load_mean[1], 10 * load_mean[2]),
             expected_std |-> RoundStd1(load_std)]]

\* The battery detector's test of a day's length: it skips len < 20.
is_battery_day(drows) == ~(Len(drows) < 20)

\* The entry the battery loop appends for one day, if any.
battery_anomaly_of(day, drows) ==
    LET drows_sorted == sort_by_hour(drows)
        start_soc == drows_sorted[1].Avg_SOC_Pct
        end_soc == drows_sorted[Len(drows_sorted)].Avg_SOC_Pct
        ch == SumSeq(Column(drows_sorted, "Battery_Charge_kWh"))
        dis == SumSeq(Column(drows_sorted, "Battery_Discharge_kWh"))
    IN  IF ~is_battery_day(drows) THEN <<>>
        ELSE IF Abs(start_soc - end_soc) > 5 THEN <<>>
        ELSE IF ch > 100 /\ dis * 100 < 80 * ch
        THEN <<[date |-> day,
                efficiency |-> RoundDiv(dis * 1000, ch),
                charge |-> Round1(ch),
                discharge |-> Round1(dis)]>>
        ELSE <<>>

RECURSIVE battery_anomalies_of(_, _)
battery_anomalies_of(by_day, days) ==
    IF days = <<>> THEN <<>>
    ELSE battery_anomaly_of(Head(days), by_day[Head(days)])
            \o battery_anomalies_of(by_day, Tail(days))

\* compute_anomalies(rows, ev_days, non_ev_days); load_order is the order in
\* which the loop over non_ev_days comes to the days it reports.
compute_anomalies(rs, non_ev, load_order) ==
    LET by_day == group_by(rs, "row_day")
        sorted_days == sorted_dates(group_keys(rs, "row_day"))
        daily_pv == [d \in DOMAIN by_day |->
                        SumSeq(Column(by_day[d], "PV_Energy_kWh"))]
        reported_pv == [d \in DOMAIN by_day |->
                           round_sum1(Column(by_day[d], "PV_Energy_kWh"))]
    IN  [pv |-> pv_anomalies_from(sorted_days, daily_pv, reported_pv, 0),
         load |-> load_anomalies(rs, non_ev, load_order),
         battery |-> battery_anomalies_of(by_day, group_keys(rs, "row_day"))]

---------------------------------------------------------------------------
(* 3i. compute_bill_impact *)
(* A cost is kWh * rate and counts thousandths of a currency unit; the     *)
(* reported amounts are whole currency units.  A tariff is a record with   *)
(* the keys type and import_rate and, where given, tiers (a list of        *)
(* records with threshold and rate) and tou.                               *)

\* calc_flat billing whole kWh only.
calc_flat_whole_kwh(kwh, import_rate) == (kwh \div 100) * 100 * import_rate

calc_flat(kwh, import_rate) == kwh * import_rate

\* tariff.get("tiers", [])
tiers_of(tariff) == IF "tiers" \in DOMAIN tariff THEN tariff.tiers ELSE <<>>

\* tier.get("rate", import_rate)
tier_rate(tier, import_rate) ==
    IF "rate" \in DOMAIN tier THEN tier.rate ELSE import_rate

\* tier_kwh with every band as wide as its threshold.
tier_kwh_from_zero(tiers, i, remaining) ==
    IF "threshold" \notin DOMAIN tiers[i] THEN remaining
    ELSE Min(remaining, tiers[i].threshold)

\* tier_kwh of the tier at position i (from 1): min(remaining, thresh) for
\* the first tier, min(remaining, thresh - prev_thresh) for the others; a
\* tier without threshold has the threshold infinity, and a previous tier
\* without threshold counts as 0.
tier_kwh(tiers, i, remaining) ==
    LET prev_thresh == IF i = 1 \/ "threshold" \notin DOMAIN tiers[i - 1]
                       THEN 0 ELSE tiers[i - 1].threshold
    IN  IF "threshold" \notin DOMAIN tiers[i] THEN remaining
        ELSE Min(remaining, tiers[i].threshold - prev_thresh)

\* The loop over the tiers from position i, and the charge for what remains
\* after the last tier.
RECURSIVE tiered_cost_from(_, _, _, _, _)
tiered_cost_from(tiers, import_rate, i, cost, remaining) ==
    IF i > Len(tiers)
    THEN IF remaining > 0
         THEN cost + remaining * tier_rate(tiers[Len(tiers)], import_rate)
         ELSE cost
    ELSE LET kwh == tier_kwh(tiers, i, remaining)
             cost_after == cost + kwh * tier_rate(tiers[i], import_rate)
         IN  IF remaining - kwh <= 0 THEN cost_after
             ELSE tiered_cost_from(tiers, import_rate, i + 1, cost_after,
                                   remaining - kwh)

calc_tiered(kwh, tariff) ==
    IF tiers_of(tariff) = <<>> THEN kwh * tariff.import_rate
    ELSE tiered_cost_from(tiers_of(tariff), tariff.import_rate, 1, 0, kwh)

\* calc_tou_monthly(mrows, rate_fn) with rate_fn reading the given field.
calc_tou_monthly(mrows, field, tariff) ==
    LET tou == IF "tou" \in DOMAIN tariff THEN tariff.tou ELSE <<>>
        peak_hours == IF "peak_hours" \in DOMAIN tou
                      THEN tou.peak_hours ELSE {}
        peak_rate == IF "peak_rate" \in DOMAIN tou
                     THEN tou.peak_rate ELSE tariff.import_rate
        offpeak_rate == IF "offpeak_rate" \in DOMAIN tou
                        THEN tou.offpeak_rate ELSE tariff.import_rate
    IN  SumSeq([i \in DOMAIN mrows |->
                   mrows[i][field]
                       * (IF mrows[i].Hour \in peak_hours
                          THEN peak_rate ELSE offpeak_rate)])

\* calc_fn(kwh): flat for every type but "tiered".
calc_fn(kwh, tariff) ==
    IF tariff.type = "tiered" THEN calc_tiered(kwh, tariff)
    ELSE calc_flat(kwh, tariff.import_rate)

\* The tier a month's energy falls in: the first whose threshold is not
\* below it, or one past the last.
RECURSIVE tier_index(_, _, _)
tier_index(tiers, kwh, i) ==
    IF i > Len(tiers) THEN Len(tiers) + 1
    ELSE IF "threshold" \notin DOMAIN tiers[i] \/ kwh <= tiers[i].threshold
    THEN i
    ELSE tier_index(tiers, kwh, i + 1)

\* monthly_bill[m]
month_bill(m, mrows, tariff, feedin_ratio, totals) ==
    LET total_load == SumSeq(Column(mrows, "Load_kWh"))
        grid_import == SumSeq(Column(mrows, "Grid_Import_kWh"))
        grid_export == SumSeq(Column(mrows, "Grid_Export_kWh"))
        without_solar == IF tariff.type = "tou"
                         THEN calc_tou_monthly(mrows, "Load_kWh", tariff)
                         ELSE calc_fn(total_load, tariff)
        with_solar == IF tariff.type = "tou"
                      THEN calc_tou_monthly(mrows, "Grid_Import_kWh", tariff)
                      ELSE calc_fn(grid_import, tariff)
        \* ten-thousandths of a currency unit
        feedin_credit == grid_export * tariff.import_rate * feedin_ratio
        net_savings == (without_solar - with_solar) * 10 + feedin_credit
    IN  [without_solar |-> RoundDiv(without_solar, 1000),
         with_solar |-> RoundDiv(with_solar, 1000),
         feedin_credit |-> RoundDiv(feedin_credit, 10000),
         net_savings |-> RoundDiv(net_savings, 10000),
         days |-> IF m \in DOMAIN totals THEN totals[m].days ELSE 30]
        @@ (IF tariff.type = "tiered" /\ tiers_of(tariff) /= <<>>
            THEN [without_tier |-> tier_index(tiers_of(tariff), total_load, 1),
                  with_tier |-> tier_index(tiers_of(tariff), grid_import, 1)]
            ELSE <<>>)

\* total / total_days * 365, rounded to a whole number.
annualized(total, total_days) ==
    IF total_days > 0 THEN RoundDiv(total * 365, total_days) ELSE 0

compute_bill_impact(rs, tariff, feedin_ratio, totals) ==
    LET by_month == group_by(rs, "row_month")
        months == DOMAIN by_month
        monthly_bill == [m \in months |->
                            month_bill(m, by_month[m], tariff, feedin_ratio,
                                       totals)]
        total_days == SumOver([m \in months |-> monthly_bill[m].days], months)
        total_without ==
            SumOver([m \in months |-> monthly_bill[m].without_solar], months)
        total_with ==
            SumOver([m \in months |-> monthly_bill[m].with_solar], months)
        total_credit ==
            SumOver([m \in months |-> monthly_bill[m].feedin_credit], months)
        total_savings ==
            SumOver([m \in months |-> monthly_bill[m].net_savings], months)
    IN  [tariff_type |-> tariff.type,
         monthly |-> monthly_bill,
         annual_without_solar |-> annualized(total_without, total_days),
         annual_with_solar |-> annualized(total_with, total_days),
         annual_feedin_credit |-> annualized(total_credit, total_days),
         annual_savings |-> annualized(total_savings, total_days),
         annual_reduction_pct |->
             IF total_days > 0 /\ total_without > 0
             THEN RoundDiv(total_savings * 100, total_without) ELSE 0]

---------------------------------------------------------------------------
(* 3j. compute_roi.  Annual savings and total_cost are whole currency     *)
(* units, system_age_years counts hundredths of a year, the reported      *)
(* paybacks and daily_savings count tenths.                               *)
(*                                                                        *)
(* annual_savings * (1 - 0.005) ** n is S * 199^n / 200^n.  So that the   *)
(* 26 terms and their sums are exact, an amount is a fixed-point number   *)
(* in base 200^2: a sequence x of 1 + FracDigits numbers standing for     *)
(* x[1] + x[2]/FxBase + x[3]/FxBase^2 + ...; x[1] is any integer, every   *)
(* later digit is in 0..FxBase-1.                                         *)

\* for n in range(26)
ModelledYears == 26

\* 1 - 0.005 = DegradationNum / DegradationBase
DegradationBase == 200

DegradationNum == 199

FxBase == DegradationBase * DegradationBase

\* Two places of base 200 in each digit: enough for S / 200^(years - 1).
FracDigits == ModelledYears \div 2

FxDigits == 1..(FracDigits + 1)

\* The digits as a sequence.
FxOf(digits) == SubSeq(digits, 1, FracDigits + 1)

Fx(n) == FxOf([i \in FxDigits |-> IF i = 1 THEN n ELSE 0])

\* Settles the digits from the last one upwards; acc holds the carry into
\* the next digit to settle, then the digits settled so far.
RECURSIVE FxCarryFrom(_, _)
FxCarryFrom(raw, acc) ==
    LET i == FracDigits + 2 - Len(acc)
        v == raw[i] + acc[1]
    IN  IF i = 1 THEN <<v>> \o Tail(acc)
        ELSE FxCarryFrom(raw, <<v \div FxBase, v % FxBase>> \o Tail(acc))

\* Brings every digit after the first back into 0..FxBase-1, carrying
\* upwards.
FxCarry(raw) == FxCarryFrom(raw, <<0>>)

FxAdd(x, y) == FxCarry([i \in FxDigits |-> x[i] + y[i]])

FxSub(x, y) == FxCarry([i \in FxDigits |-> x[i] - y[i]])

FxScale(x, k) == FxCarry([i \in FxDigits |-> x[i] * k])

\* x / 200: what a digit leaves after division by 200 goes, times 200, to
\* the next digit (the last digit of x is a multiple of 200).
FxShift(x) ==
    FxOf([i \in FxDigits |->
             IF i = 1 THEN x[1] \div DegradationBase
             ELSE (x[i - 1] % DegradationBase) * DegradationBase
                      + (x[i] \div DegradationBase)])

FxLess(x, y) ==
    \E i \in FxDigits :
        /\ x[i] < y[i]
        /\ \A j \in 1..(i - 1) : x[j] = y[j]

FxLeq(x, y) == ~FxLess(y, x)

\* round(x, 0)
FxRound0(x) ==
    LET half == FxOf([i \in FxDigits |-> IF i = 2 THEN FxBase \div 2 ELSE 0])
        frac == [x EXCEPT ![1] = 0]
    IN  IF FxLess(frac, half) THEN x[1]
        ELSE IF FxLess(half, frac) THEN x[1] + 1
        ELSE IF x[1] % 2 = 0 THEN x[1] ELSE x[1] + 1

\* round(num / den, 0) for 0 <= num and 0 < den, the quotient's whole part
\* known to lie in lo..hi.
FxRoundDiv(num, den, lo, hi) ==
    LET q == CHOOSE k \in lo..hi :
                 /\ FxLeq(FxScale(den, k), num)
                 /\ FxLess(num, FxScale(den, k + 1))
        twice == FxScale(FxSub(num, FxScale(den, q)), 2)
    IN  IF FxLess(twice, den) THEN q
        ELSE IF FxLess(den, twice) THEN q + 1
        ELSE IF q % 2 = 0 THEN q ELSE q + 1

\* Extends <<S, S * 0.995, ...>> up to S * 0.995^k.
RECURSIVE year_savings_from(_, _)
year_savings_from(yearly, k) ==
    IF Len(yearly) > k THEN yearly
    ELSE year_savings_from(
             Append(yearly,
                    FxShift(FxScale(yearly[Len(yearly)], DegradationNum))),
             k)

\* <<S, S * 0.995, ..., S * 0.995^k>>: year_savings for n = 0..k.
year_savings_upto(annual_savings, k) ==
    year_savings_from(<<Fx(annual_savings)>>, k)

\* fraction = (total_cost - prev_cum) / year_savings, kept as the pair
\* [num, den] of amounts.
payback_fraction_of_total(total_cost, cumulative, year_savings) ==
    IF FxLess(Fx(0), year_savings)
    THEN [num |-> FxSub(total_cost, FxSub(cumulative, year_savings)),
          den |-> cumulative]
    ELSE [num |-> Fx(0), den |-> Fx(1)]

payback_fraction(total_cost, cumulative, year_savings) ==
    IF FxLess(Fx(0), year_savings)
    THEN [num |-> FxSub(total_cost, FxSub(cumulative, year_savings)),
          den |-> year_savings]
    ELSE [num |-> Fx(0), den |-> Fx(1)]

\* The body of the loop for year n; st = [cumulative, payback_year], where
\* payback_year is <<>> (None) or <<[n, num, den]>> for n + num / den.
roi_year(st, total_cost, year_savings, n) ==
    LET cumulative == FxAdd(st.cumulative, year_savings)
    IN  [cumulative |-> cumulative,
         payback_year |->
             IF st.payback_year = <<>> /\ FxLeq(Fx(total_cost), cumulative)
             THEN LET fraction == payback_fraction(Fx(total_cost), cumulative,
                                                   year_savings)
                  IN  <<[n |-> n, num |-> fraction.num, den |-> fraction.den]>>
             ELSE st.payback_year]

\* Runs the loop for the years that states does not hold yet.
RECURSIVE roi_loop_from(_, _, _)
roi_loop_from(states, total_cost, yearly) ==
    IF Len(states) > Len(yearly) THEN states
    ELSE roi_loop_from(
             Append(states,
                    roi_year(states[Len(states)], total_cost,
                             yearly[Len(states)], Len(states) - 1)),
             total_cost, yearly)

\* The loop's states: before year 0, after year 0, ..., after the last year.
roi_loop(total_cost, yearly) ==
    roi_loop_from(<<[cumulative |-> Fx(0), payback_year |-> <<>>]>>,
                  total_cost, yearly)

\* Extends the running sums up to the sum of the first k terms.
RECURSIVE FxSums_from(_, _, _)
FxSums_from(sums, yearly, k) ==
    IF Len(sums) > k THEN sums
    ELSE FxSums_from(Append(sums, FxAdd(sums[Len(sums)], yearly[Len(sums)])),
                     yearly, k)

\* The running sums of sum(... for n in range(k)): 0, the first term, the
\* first two terms, ..., the first k terms.
FxSums(yearly, k) == FxSums_from(<<Fx(0)>>, yearly, k)

\* "if payback_year": None and 0.0 are both false.
is_truthy(payback_year) ==
    /\ payback_year /= <<>>
    /\ ~(payback_year[1].n = 0 /\ payback_year[1].num = Fx(0))

\* round(payback_year, 1), in tenths
round_payback(p) == 10 * p.n + FxRoundDiv(FxScale(p.num, 10), p.den, 0, 10)

\* round(max(0, payback_year - system_age), 1), in tenths
round_remaining(p, system_age) ==
    LET years == FxAdd(FxScale(p.den, 100 * p.n), FxScale(p.num, 100))
        age == FxScale(p.den, system_age)
    IN  IF FxLeq(years, age) THEN 0
        ELSE FxRoundDiv(FxSub(years, age), FxScale(p.den, 10),
                        Max(0, 10 * p.n - (system_age \div 10) - 1),
                        10 * p.n + 10)

config_get(d, key, default) == IF key \in DOMAIN d THEN d[key] ELSE default

no_savings_below_zero(annual_savings) == annual_savings < 0

\* if annual_savings <= 0
no_savings(annual_savings) == annual_savings <= 0

compute_roi(bill, roi_config) ==
    IF roi_config = <<>> THEN <<>>
    ELSE
    LET total_cost == config_get(roi_config, "total_cost", 0)
        system_age == config_get(roi_config, "system_age_years", 0)
        annual_savings == config_get(bill, "annual_savings", 0)
    IN  IF no_savings(annual_savings)
        THEN [error |-> "No savings to compute ROI"]
        ELSE
        LET yearly == year_savings_upto(annual_savings, ModelledYears - 1)
            final == roi_loop(total_cost, yearly)[Len(yearly) + 1]
            payback_year == final.payback_year
        IN  [total_cost |-> total_cost,
             system_age_years |-> system_age,
             daily_savings |-> RoundDiv(annual_savings * 10, 365),
             annual_savings_year1 |-> annual_savings,
             simple_payback |->
                 IF is_truthy(payback_year)
                 THEN <<round_payback(payback_year[1])>> ELSE <<>>,
             remaining_payback |->
                 IF is_truthy(payback_year)
                 THEN <<round_remaining(payback_year[1], system_age)>>
                 ELSE <<>>,
             lifetime_savings_25yr |-> FxRound0(FxSums(yearly, 25)[26]),
             yearly_savings_sample |->
                 [year_1 |-> FxRound0(yearly[1]),
                  year_10 |-> FxRound0(yearly[10]),
                  year_25 |-> FxRound0(yearly[25])],
             payback_year |-> payback_year]

---------------------------------------------------------------------------
(* 3k. compute_trends, and 3l. compute_battery_health.  Percentages and   *)
(* percentage points rounded to 0 decimals are whole numbers, those        *)
(* rounded to 1 decimal count tenths; system_age counts hundredths of a    *)
(* year.                                                                   *)

MonthLess(a, b) == a[1] < b[1] \/ (a[1] = b[1] /\ a[2] < b[2])

\* sorted(S) for a set of months.
RECURSIVE sorted_months(_)
sorted_months(S) ==
    IF S = {} THEN <<>>
    ELSE LET least == CHOOSE x \in S : \A y \in S \ {x} : MonthLess(x, y)
         IN  <<least>> \o sorted_months(S \ {least})

\* round((b - a) / a * 100, 0) if a > 0 else 0, for a = n1/d1 and b = n2/d2.
change_pct(n1, d1, n2, d2) ==
    IF n1 > 0 THEN RoundDiv((n2 * d1 - n1 * d2) * 100, n1 * d2) ELSE 0

\* gd = grid_import / total_load * 100 if total_load > 0 else 0, as <<n, d>>.
grid_dependence(d) ==
    IF d.total_load > 0 THEN <<d.grid_import * 100, d.total_load>>
    ELSE <<0, 1>>

\* d.get("self_sufficiency", 0) or 0
self_sufficiency_or_0(d) ==
    IF d.self_sufficiency = <<>> THEN 0 ELSE d.self_sufficiency[1]

\* monthly_efficiency.get(m, {}).get("efficiency", 0)
efficiency_of(efficiency, m) ==
    IF m \in DOMAIN efficiency THEN efficiency[m].efficiency ELSE 0

\* The entry the loop appends for the adjacent months m1, m2.
trend(totals, efficiency, m1, m2) ==
    LET d1 == totals[m1]
        d2 == totals[m2]
        gd1 == grid_dependence(d1)
        gd2 == grid_dependence(d2)
        eff1 == efficiency_of(efficiency, m1)
        eff2 == efficiency_of(efficiency, m2)
    IN  [from |-> m1,
         to |-> m2,
         avg_daily_pv |-> <<RoundDiv(d1.total_pv, d1.days),
                            RoundDiv(d2.total_pv, d2.days)>>,
         avg_daily_pv_change_pct |->
             change_pct(d1.total_pv, d1.days, d2.total_pv, d2.days),
         avg_daily_load |-> <<RoundDiv(d1.total_load, d1.days),
                              RoundDiv(d2.total_load, d2.days)>>,
         avg_daily_load_change_pct |->
             change_pct(d1.total_load, d1.days, d2.total_load, d2.days),
         self_sufficiency |-> <<d1.self_sufficiency, d2.self_sufficiency>>,
         self_sufficiency_change_pp |->
             RoundDiv(self_sufficiency_or_0(d2) - self_sufficiency_or_0(d1),
                      10),
         grid_dependence |-> <<RoundDiv(gd1[1], gd1[2]),
                               RoundDiv(gd2[1], gd2[2])>>,
         grid_dependence_change_pp |->
             RoundDiv(gd2[1] * gd1[2] - gd1[1] * gd2[2], gd1[2] * gd2[2]),
         battery_efficiency |-> <<eff1, eff2>>,
         battery_efficiency_change_pp |-> eff2 - eff1]

\* The loop stopping one pair short: range(1, len(months) - 1).
trend_indices_short(months) == 1..(Len(months) - 2)

\* for i in range(1, len(months)): the entry for months[i - 1], months[i]
\* (lists are indexed from 1 here, so k stands for i = k).
trend_indices(months) == 1..(Len(months) - 1)

\* None (<<>>) for fewer than 2 months, else <<the list of entries>>.
compute_trends(totals, efficiency) ==
    LET months == sorted_months(DOMAIN totals)
    IN  IF Len(months) < 2 THEN <<>>
        ELSE <<[k \in trend_indices(months) |->
                   trend(totals, efficiency, months[k], months[k + 1])]>>

\* remaining_cycle_years: None when there are no cycles in a year.
remaining_cycle_years(avg_discharge, usable, system_age) ==
    IF usable > 0 /\ avg_discharge > 0
    THEN <<RoundDiv(Max(0, 600000 * usable - 365 * system_age * avg_discharge),
                    36500 * avg_discharge)>>
    ELSE <<>>

compute_battery_health(battery_analysis, system_age) ==
    LET usable == battery_analysis.estimated_usable_kwh
        avg_discharge == battery_analysis.avg_discharge
    IN  [usable_kwh |-> usable,
         usable_pct |-> battery_analysis.usable_pct,
         nominal_kwh |-> battery_analysis.nominal_kwh,
         daily_equiv_cycles |->
             IF usable > 0 THEN RoundDiv(avg_discharge * 100, usable) ELSE 0,
         annual_cycles |->
             IF usable > 0 THEN RoundDiv(avg_discharge * 365, usable) ELSE 0,
         cycles_used |->
             IF usable > 0
             THEN RoundDiv(avg_discharge * 365 * system_age, usable * 100)
             ELSE 0,
         remaining_cycle_years |->
             remaining_cycle_years(avg_discharge, usable, system_age),
         monthly_efficiency |-> battery_analysis.monthly_efficiency]

---------------------------------------------------------------------------
(* 3m. compute_annual_projection.  A seasonal factor counts hundredths,   *)
(* seasonal_factors maps month numbers (the keys "1".."12") to factors;   *)
(* the function's monthly_efficiency argument is never read and is left   *)
(* out.  Unrounded values are quotients <<n, d>> of kWh.                  *)

\* a + b over the least common denominator.
RatAdd(a, b) ==
    LET g == Gcd(a[2], b[2])
    IN  Rat(a[1] * (b[2] \div g) + b[1] * (a[2] \div g),
            (a[2] \div g) * b[2])

\* a * b, cancelling across before multiplying.
RatMul(a, b) ==
    LET g == Max(1, Gcd(Abs(a[1]), b[2]))
        h == Max(1, Gcd(Abs(b[1]), a[2]))
    IN  <<(a[1] \div g) * (b[1] \div h), (a[2] \div h) * (b[2] \div g)>>

\* The sum of the quotients f[x] for x in S.
RECURSIVE RatSumOver(_, _)
RatSumOver(f, S) ==
    IF S = {} THEN <<0, 1>>
    ELSE LET x == CHOOSE y \in S : TRUE
         IN  RatAdd(f[x], RatSumOver(f, S \ {x}))

\* The self-consumption rate main hands over, in percent.
sc_rate(totals) ==
    LET months == DOMAIN totals
        total_sc == SumOver([m \in months |-> totals[m].self_consumed],
                            months)
        total_pv == SumOver([m \in months |-> totals[m].total_pv], months)
    IN  IF total_pv > 0 THEN Rat(total_sc * 100, total_pv) ELSE <<0, 1>>

confidence_high_from_five(months_count) ==
    IF months_count < 3 THEN "low"
    ELSE IF months_count < 5 THEN "moderate"
    ELSE "high"

confidence_of(months_count) ==
    IF months_count < 3 THEN "low"
    ELSE IF months_count < 6 THEN "moderate"
    ELSE "high"

\* round(num / d, 0) for an amount num >= 0 and a whole number d > 0.
FxRoundDivWhole(num, d) ==
    LET q == num[1] \div d
        twice == FxScale([num EXCEPT ![1] = num[1] % d], 2)
    IN  IF FxLess(twice, Fx(d)) THEN q
        ELSE IF FxLess(Fx(d), twice) THEN q + 1
        ELSE IF q % 2 = 0 THEN q ELSE q + 1

\* round(x * (1 - 0.005) ** years, 0) for the quotient x >= 0
degraded_pv(x, years) ==
    FxRoundDivWhole(year_savings_upto(x[1], years)[years + 1], x[2])

compute_annual_projection(totals, seasonal_factors, sc) ==
    LET months == DOMAIN totals
        factor == [m \in months |-> config_get(seasonal_factors, m[2], 100)]
        avg_daily == [m \in months |->
                         Rat(totals[m].total_pv, 10 * totals[m].days)]
        deseasonalized ==
            [m \in months |-> RatMul(avg_daily[m], <<100, factor[m]>>)]
        total == RatSumOver(deseasonalized, months)
        baseline_daily == Rat(total[1], total[2] * Cardinality(months))
        factor_sum ==
            SumOver([k \in 1..12 |-> config_get(seasonal_factors, k, 100)],
                    1..12)
        projected_annual_pv ==
            RatMul(baseline_daily, Rat(factor_sum * 3044, 10000))
        projected_self_consumed ==
            IF sc[1] > 0
            THEN RatMul(projected_annual_pv, Rat(sc[1], sc[2] * 100))
            ELSE <<0, 1>>
        projected_export ==
            RatAdd(projected_annual_pv,
                   <<-projected_self_consumed[1], projected_self_consumed[2]>>)
    IN  [months_count |-> Cardinality(months),
         confidence |-> confidence_of(Cardinality(months)),
         baseline_daily_pv |->
             RoundDiv(baseline_daily[1] * 10, baseline_daily[2]),
         projected_annual_pv |->
             RoundDiv(projected_annual_pv[1], projected_annual_pv[2]),
         projected_annual_self_consumed |->
             RoundDiv(projected_self_consumed[1], projected_self_consumed[2]),
         projected_annual_export |->
             RoundDiv(projected_export[1], projected_export[2]),
         projected_annual_pv_year10 |-> degraded_pv(projected_annual_pv, 10),
         projected_annual_pv_year25 |-> degraded_pv(projected_annual_pv, 25),
         deseasonalized_months |->
             [m \in months |->
                 [avg_daily |-> RoundDiv(avg_daily[m][1] * 10, avg_daily[m][2]),
                  factor |-> factor[m],
                  deseasonalized |->
                      RoundDiv(deseasonalized[m][1] * 10,
                               deseasonalized[m][2])]]]

---------------------------------------------------------------------------
(* 3c. compute_hourly_patterns and 3c2. compute_weekday_weekend.  Of the   *)
(* hourly patterns the labels with an hourly table, peak_pv_hours and       *)
(* export_hours are kept; of the weekday/weekend comparison the day count,   *)
(* the average daily load and the self-sufficiency of each label.           *)

rows_on(rs, day_set) == SelectSeq(rs, LAMBDA r : row_day(r) \in day_set)

\* sorted(S) for a set of hours.
RECURSIVE sorted_hours(_)
sorted_hours(S) ==
    IF S = {} THEN <<>>
    ELSE LET least == CHOOSE x \in S : \A y \in S : x <= y
         IN  <<least>> \o sorted_hours(S \ {least})

compute_hourly_patterns(rs, ev, non_ev) ==
    LET all_by_hour == Tabulated(group_by(rs, "row_hour"))
        hours == DOMAIN all_by_hour
        pv_hourly == Tabulated([h \in hours |->
                         mean(Column(all_by_hour[h], "Avg_PV_W"))])
        max_pv == IF hours = {} THEN <<0, 1>>
                  ELSE LET h == CHOOSE x \in hours : \A y \in hours :
                                    ~RatLess(pv_hourly[x], pv_hourly[y])
                       IN  pv_hourly[h]
        export_hourly == [h \in hours |->
                             mean(Column(all_by_hour[h], "Grid_Export_kWh"))]
    IN  [hourly |->
             {label \in {"non_ev", "ev"} :
                 rows_on(rs, IF label = "ev" THEN ev ELSE non_ev) /= <<>>},
         peak_pv_hours |->
             sorted_hours({h \in hours :
                 RatLess(<<max_pv[1], 2 * max_pv[2]>>, pv_hourly[h])}),
         export_hours |->
             sorted_hours({h \in hours :
                 export_hourly[h][1] > 5 * export_hourly[h][2]})]

\* Days before the first of month m in year y.
days_before_month(y, m) ==
    LET leap == y % 4 = 0 /\ (y % 100 /= 0 \/ y % 400 = 0)
        lengths == <<31, IF leap THEN 29 ELSE 28, 31, 30, 31, 30, 31, 31, 30,
                     31, 30, 31>>
    IN  SumSeq(SubSeq(lengths, 1, m - 1))

\* datetime.date(...).weekday(): Monday is 0, Sunday is 6.
weekday(d) ==
    LET y == d[1] - 1
        ordinal == 365 * y + (y \div 4) - (y \div 100) + (y \div 400)
                       + days_before_month(d[1], d[2]) + d[3]
    IN  (ordinal + 6) % 7

is_weekend(d) == weekday(d) >= 5

\* The comparison is made with days of either kind alone.
no_split_without_both(weekday_days, weekend_days) ==
    weekday_days = {} /\ weekend_days = {}

\* if not weekday_days or not weekend_days: return None
no_split(weekday_days, weekend_days) == weekday_days = {} \/ weekend_days = {}

\* result[label] of compute_weekday_weekend for the days of day_set.
day_type_stats(by_day, day_set) ==
    LET days_data == {d \in DOMAIN by_day :
                         d \in day_set /\ Len(by_day[d]) > 20}
        load == SumOver([d \in days_data |->
                            SumSeq(Column(by_day[d], "Load_kWh"))], days_data)
        import == SumOver([d \in days_data |->
                              SumSeq(Column(by_day[d], "Grid_Import_kWh"))],
                          days_data)
        n == Cardinality(days_data)
    IN  [days |-> n,
         avg_daily_load |-> RoundDiv(load, 10 * n),
         self_sufficiency |->
             IF load > 0 THEN RoundDiv((load - import) * 100, load) ELSE 0]

\* None (<<>>) or <<the comparison>>.
compute_weekday_weekend(rs, non_ev) ==
    LET non_ev_rows == rows_on(rs, non_ev)
        weekday_days == {d \in non_ev : ~is_weekend(d)}
        weekend_days == {d \in non_ev : is_weekend(d)}
        by_day == Tabulated(group_by(non_ev_rows, "row_day"))
        labels == {label \in {"weekday", "weekend"} :
                      \E d \in DOMAIN by_day :
                          /\ d \in (IF label = "weekday" THEN weekday_days
                                    ELSE weekend_days)
                          /\ Len(by_day[d]) > 20}
    IN  IF non_ev_rows = <<>> THEN <<>>
        ELSE IF no_split(weekday_days, weekend_days) THEN <<>>
        ELSE <<[label \in labels |->
                   day_type_stats(by_day, IF label = "weekday"
                                          THEN weekday_days
                                          ELSE weekend_days)]>>

---------------------------------------------------------------------------
(* 3g. compute_peak_demand (the peak PV figures), 3n.                      *)
(* compute_best_worst_days, 3o. compute_carbon_offset and the EV detail.   *)

\* max(rows, key=...): the first row with the largest Avg_PV_W.
compute_peak_demand(rs, inverter_ac_w) ==
    LET peak_pv_w == MaxOf(Column(rs, "Avg_PV_W"))
        first == CHOOSE i \in DOMAIN rs :
                     /\ rs[i].Avg_PV_W = peak_pv_w
                     /\ \A j \in 1..(i - 1) : rs[j].Avg_PV_W /= peak_pv_w
    IN  [peak_pv_w |-> peak_pv_w,
         peak_pv_date |-> rs[first].Date,
         peak_pv_hour |-> rs[first].Hour,
         peak_pv_pct_inverter |->
             IF inverter_ac_w > 0 THEN RoundDiv(peak_pv_w * 100, inverter_ac_w)
             ELSE 0]

\* stats[day] of compute_best_worst_days.
day_stats(drows, day, ev) ==
    LET pv == SumSeq(Column(drows, "PV_Energy_kWh"))
        load == SumSeq(Column(drows, "Load_kWh"))
        imp == SumSeq(Column(drows, "Grid_Import_kWh"))
        exp == SumSeq(Column(drows, "Grid_Export_kWh"))
    IN  [date |-> day,
         pv |-> Round1(pv),
         load |-> Round1(load),
         grid_import |-> Round1(imp),
         grid_export |-> Round1(exp),
         self_sufficiency |->
             IF load > 0 THEN RoundDiv((load - imp) * 100, load) ELSE 0,
         is_ev |-> day \in ev]

\* A report of zeros for an input without a full day.
no_stats_as_zeros(stats) ==
    <<[best |-> [date |-> <<>>, pv |-> 0, load |-> 0, grid_import |-> 0,
                 grid_export |-> 0, self_sufficiency |-> 0, is_ev |-> FALSE],
       worst |-> [date |-> <<>>, pv |-> 0, load |-> 0, grid_import |-> 0,
                  grid_export |-> 0, self_sufficiency |-> 0, is_ev |-> FALSE]]>>

\* if not stats: return None
no_stats(stats) == <<>>

\* None (<<>>) or <<[best, worst]>>; max and min take the first day, in dict
\* order, of those with the extreme self-sufficiency.
compute_best_worst_days(rs, ev) ==
    LET by_day == Tabulated(group_by(rs, "row_day"))
        days == SelectSeq(group_keys(rs, "row_day"),
                          LAMBDA d : ~(Len(by_day[d]) <= 20))
        stats == [k \in DOMAIN days |-> day_stats(by_day[days[k]], days[k], ev)]
        first_with(v) ==
            CHOOSE k \in DOMAIN days :
                /\ stats[k].self_sufficiency = v
                /\ \A j \in 1..(k - 1) : stats[j].self_sufficiency /= v
        values == {stats[k].self_sufficiency : k \in DOMAIN days}
    IN  IF days = <<>> THEN no_stats(stats)
        ELSE <<[best |-> stats[first_with(
                     CHOOSE v \in values : \A w \in values : w <= v)],
                worst |-> stats[first_with(
                     CHOOSE v \in values : \A w \in values : v <= w)]]>>

\* grid_emission_factor counts hundredths of a kg per kWh.
compute_carbon_offset(projected_self_consumed, grid_emission_factor) ==
    LET co2 == projected_self_consumed * grid_emission_factor
    IN  [grid_emission_factor |-> grid_emission_factor,
         annual_co2_avoided_kg |-> RoundDiv(co2, 100),
         annual_co2_avoided_tonnes |-> RoundDiv(co2, 10000),
         equiv_trees |-> RoundDiv(co2, 2200),
         equiv_km_driving |-> RoundDiv(co2, 21)]

\* ev_detail of main: a dict that stays {} unless has_ev and ev_days; the
\* labels it gets and their average daily load.
ev_detail_of(rs, has_ev, ev, non_ev) ==
    LET by_day == Tabulated(group_by(rs, "row_day"))
        set_of(label) == IF label = "ev" THEN ev ELSE non_ev
        labels == IF has_ev /\ ev /= {}
                  THEN {label \in {"ev", "non_ev"} :
                           set_of(label) \cap DOMAIN by_day /= {}}
                  ELSE {}
    IN  [label \in labels |->
            LET ds == set_of(label) \cap DOMAIN by_day
            IN  [avg_load |->
                     RoundDiv(SumOver([d \in ds |->
                                  SumSeq(Column(by_day[d], "Load_kWh"))], ds),
                              10 * Cardinality(ds))]]

---------------------------------------------------------------------------
(* Exceptions.  A section raises where it divides by a value that is zero  *)
(* or takes max() of an empty list; an exception is not caught anywhere    *)
(* and ends the run.  <<>> stands for no exception.                        *)

\* compute_system_sizing: avg_daily_pv / (pv_kwp * 24), then
\* max(r["Avg_PV_W"] for r in rows), then pv_kwp / inverter_kw.
system_sizing_raises(rs, pv_kwp, inverter_kw) ==
    IF pv_kwp = 0 THEN <<"ZeroDivisionError">>
    ELSE IF rs = <<>> THEN <<"ValueError">>
    ELSE IF inverter_kw = 0 THEN <<"ZeroDivisionError">>
    ELSE <<>>

\* compute_annual_projection: avg_daily / factor for every month of records.
annual_projection_raises(totals, seasonal_factors) ==
    IF \E m \in DOMAIN totals : config_get(seasonal_factors, m[2], 100) = 0
    THEN <<"ZeroDivisionError">>
    ELSE <<>>

---------------------------------------------------------------------------
(* main: the report *)

\* system_age = roi_config.get("system_age_years", 0) if roi_config else 0
system_age(cfg) ==
    IF cfg.roi = <<>> THEN 0 ELSE config_get(cfg.roi, "system_age_years", 0)

\* The output dict of main; a section that returned None is <<>>.
report(rs, cfg, files, totals, ev, non_ev, info, patterns, weekdays, sizes, batt, added, peak, anomaly, bill, payback, trend_list, health, projected) ==
    [files |-> files,
     total_rows |-> Len(rs),
     date_range |->
         LET dates == {rs[i].Date : i \in DOMAIN rs}
         IN  <<CHOOSE d \in dates : \A e \in dates \ {d} : DateLess(d, e),
               CHOOSE d \in dates : \A e \in dates \ {d} : DateLess(e, d)>>,
     unique_days |-> Cardinality({row_day(rs[i]) : i \in DOMAIN rs}),
     monthly_totals |-> totals,
     ev_detection |-> info,
     hourly_patterns |-> patterns,
     weekday_weekend |-> weekdays,
     system_sizing |-> sizes,
     battery_analysis |-> batt,
     additional_panels |-> added,
     peak_demand |-> peak,
     anomalies |-> anomaly,
     bill_impact |-> bill,
     roi |-> payback,
     trends |-> trend_list,
     battery_health |-> health,
     annual_projection |-> projected,
     best_worst_days |-> compute_best_worst_days(rs, ev),
     carbon_offset |->
         compute_carbon_offset(projected.projected_annual_self_consumed,
                               config_get(cfg, "grid_emission_factor", 50)),
     ev_detail |-> ev_detail_of(rs, cfg.has_ev, ev, non_ev),
     self_consumption_rate |->
         LET rate == sc_rate(totals) IN RoundDiv(rate[1] * 10, rate[2])]

---------------------------------------------------------------------------
(* main: the pipeline *)

\* An exception caught and dropped on the spot, the run going on.
pc_after_handled(exc, next) == next

\* An exception that nothing catches ends the run: main has no try block.
pc_after(exc, next) == IF exc /= <<>> THEN "failed" ELSE next

Enrich ==
    /\ pc = "enrich"
    /\ rows' = [i \in DOMAIN rows |-> enrich(rows[i])]
    /\ pc' = "monthly_totals"
    /\ UNCHANGED <<config, filenames, error, monthly_totals, ev_days,
                   non_ev_days, ev_info, hourly, weekday_weekend, sizing,
                   battery, panels, peak_demand, anomalies, bill_impact,
                   roi, trends, battery_health, projection, output, export>>

MonthlyTotals ==
    /\ pc = "monthly_totals"
    /\ monthly_totals' = compute_monthly_totals(rows)
    /\ pc' = "ev_detection"
    /\ UNCHANGED <<rows, config, filenames, error, ev_days, non_ev_days,
                   ev_info, hourly, weekday_weekend, sizing, battery,
                   panels, peak_demand, anomalies, bill_impact, roi, trends,
                   battery_health, projection, output, export>>

DetectEv ==
    /\ pc = "ev_detection"
    /\ LET r == IF config.has_ev
                THEN detect_ev_days(rows)
                ELSE LET all_days == all_full_days(rows)
                     IN  [ev_days |-> {}, non_ev_days |-> all_days,
                          info |-> [ev_day_count |-> 0,
                                    non_ev_day_count |-> Cardinality(all_days),
                                    total_full_days |-> Cardinality(all_days)]]
       IN  /\ ev_days' = r.ev_days
           /\ non_ev_days' = r.non_ev_days
           /\ ev_info' = r.info
    /\ pc' = "patterns"
    /\ UNCHANGED <<rows, config, filenames, error, monthly_totals, hourly,
                   weekday_weekend, sizing, battery, panels, peak_demand,
                   anomalies, bill_impact, roi, trends, battery_health,
                   projection, output, export>>

Patterns ==
    /\ pc = "patterns"
    /\ hourly' = compute_hourly_patterns(rows, ev_days, non_ev_days)
    /\ weekday_weekend' = compute_weekday_weekend(rows, non_ev_days)
    /\ pc' = "system_sizing"
    /\ UNCHANGED <<rows, config, filenames, error, monthly_totals, ev_days,
                   non_ev_days, ev_info, sizing, battery, panels,
                   peak_demand, anomalies, bill_impact, roi, trends,
                   battery_health, projection, output, export>>

SystemSizing ==
    /\ pc = "system_sizing"
    /\ LET exc == system_sizing_raises(rows, config.pv_kwp, config.inverter_kw)
       IN  /\ error' = exc
           /\ pc' = pc_after(exc, "battery_analysis")
           /\ IF exc /= <<>>
              THEN UNCHANGED sizing
              ELSE sizing' = compute_system_sizing(rows, config.pv_kwp,
                                     config.inverter_kw, non_ev_days)
    /\ UNCHANGED <<rows, config, filenames, monthly_totals, ev_days,
                   non_ev_days, ev_info, hourly, weekday_weekend, battery,
                   panels, peak_demand, anomalies, bill_impact, roi, trends,
                   battery_health, projection, output, export>>

BatteryAnalysis ==
    /\ pc = "battery_analysis"
    /\ LET exc == battery_analysis_raises(rows, config.battery_nominal_kwh)
       IN  /\ error' = exc
           /\ pc' = pc_after(exc, "additional_panels")
           /\ IF exc /= <<>>
              THEN UNCHANGED battery
              ELSE battery' = compute_battery_analysis(rows,
                                        config.battery_nominal_kwh)
    /\ UNCHANGED <<rows, config, filenames, monthly_totals, ev_days,
                   non_ev_days, ev_info, hourly, weekday_weekend, sizing,
                   panels, peak_demand, anomalies, bill_impact, roi, trends,
                   battery_health, projection, output, export>>

AdditionalPanels ==
    /\ pc = "additional_panels"
    /\ panels' = compute_additional_panels(rows, config.pv_kwp,
                                         config.additional_kwp,
                                         config.feedin_ratio,
                                         config.tariff.import_rate)
    /\ pc' = "peak_demand"
    /\ UNCHANGED <<rows, config, filenames, error, monthly_totals, ev_days,
                   non_ev_days, ev_info, hourly, weekday_weekend, sizing,
                   battery, peak_demand, anomalies, bill_impact, roi,
                   trends, battery_health, projection, output, export>>

PeakDemand ==
    /\ pc = "peak_demand"
    /\ peak_demand' = compute_peak_demand(rows, sizing.inverter_ac_w)
    /\ pc' = "anomalies"
    /\ UNCHANGED <<rows, config, filenames, error, monthly_totals, ev_days,
                   non_ev_days, ev_info, hourly, weekday_weekend, sizing,
                   battery, panels, anomalies, bill_impact, roi, trends,
                   battery_health, projection, output, export>>

Anomalies ==
    /\ pc = "anomalies"
    /\ \E load_order \in
              iteration_orders(load_anomaly_days(rows, non_ev_days)) :
          anomalies' = compute_anomalies(rows, non_ev_days, load_order)
    /\ pc' = "bill_impact"
    /\ UNCHANGED <<rows, config, filenames, error, monthly_totals, ev_days,
                   non_ev_days, ev_info, hourly, weekday_weekend, sizing,
                   battery, panels, peak_demand, bill_impact, roi, trends,
                   battery_health, projection, output, export>>

BillImpact ==
    /\ pc = "bill_impact"
    /\ bill_impact' = compute_bill_impact(rows, config.tariff,
                                        config.feedin_ratio, monthly_totals)
    /\ pc' = "roi"
    /\ UNCHANGED <<rows, config, filenames, error, monthly_totals, ev_days,
                   non_ev_days, ev_info, hourly, weekday_weekend, sizing,
                   battery, panels, peak_demand, anomalies, roi, trends,
                   battery_health, projection, output, export>>

Roi ==
    /\ pc = "roi"
    /\ roi' = compute_roi(bill_impact, config.roi)
    /\ pc' = "trends"
    /\ UNCHANGED <<rows, config, filenames, error, monthly_totals, ev_days,
                   non_ev_days, ev_info, hourly, weekday_weekend, sizing,
                   battery, panels, peak_demand, anomalies, bill_impact,
                   trends, battery_health, projection, output, export>>

Trends ==
    /\ pc = "trends"
    /\ trends' = compute_trends(monthly_totals, battery.monthly_efficiency)
    /\ pc' = "battery_health"
    /\ UNCHANGED <<rows, config, filenames, error, monthly_totals, ev_days,
                   non_ev_days, ev_info, hourly, weekday_weekend, sizing,
                   battery, panels, peak_demand, anomalies, bill_impact,
                   roi, battery_health, projection, output, export>>

BatteryHealth ==
    /\ pc = "battery_health"
    /\ battery_health' = compute_battery_health(battery, system_age(config))
    /\ pc' = "annual_projection"
    /\ UNCHANGED <<rows, config, filenames, error, monthly_totals, ev_days,
                   non_ev_days, ev_info, hourly, weekday_weekend, sizing,
                   battery, panels, peak_demand, anomalies, bill_impact,
                   roi, trends, projection, output, export>>

AnnualProjection ==
    /\ pc = "annual_projection"
    /\ LET exc == annual_projection_raises(monthly_totals, config.seasonal_factors)
       IN  /\ error' = exc
           /\ pc' = pc_after(exc, "report")
           /\ IF exc /= <<>>
              THEN UNCHANGED projection
              ELSE projection' = compute_annual_projection(
                       monthly_totals, config.seasonal_factors,
                       sc_rate(monthly_totals))
    /\ UNCHANGED <<rows, config, filenames, monthly_totals, ev_days,
                   non_ev_days, ev_info, hourly, weekday_weekend, sizing,
                   battery, panels, peak_demand, anomalies, bill_impact,
                   roi, trends, battery_health, output, export>>

Report ==
    /\ pc = "report"
    /\ output' = <<report(rows, config, filenames, monthly_totals, ev_days,
                        non_ev_days, ev_info, hourly, weekday_weekend,
                        sizing, battery, panels, peak_demand, anomalies,
                        bill_impact, roi, trends, battery_health,
                        projection)>>
    /\ pc' = "done"
    /\ UNCHANGED <<rows, config, filenames, error, monthly_totals, ev_days,
                   non_ev_days, ev_info, hourly, weekday_weekend, sizing,
                   battery, panels, peak_demand, anomalies, bill_impact,
                   roi, trends, battery_health, projection, export>>

Next ==
    \/ Enrich
    \/ MonthlyTotals
    \/ DetectEv
    \/ Patterns
    \/ SystemSizing
    \/ BatteryAnalysis
    \/ AdditionalPanels
    \/ PeakDemand
    \/ Anomalies
    \/ BillImpact
    \/ Roi
    \/ Trends
    \/ BatteryHealth
    \/ AnnualProjection
    \/ Report

---------------------------------------------------------------------------
(* Inputs: the rows load_csv_files returns and the configuration *)

\* One CSV row after the numeric conversion of load_csv_files.
RawRow(date, hour, pv, bat, grid, grid_load, backup_load, soc) ==
    [Date |-> date, Hour |-> hour,
     PV_Energy_kWh |-> pv,
     Battery_Energy_kWh |-> bat,
     Grid_Energy_kWh |-> grid,
     GridLoad_Energy_kWh |-> grid_load,
     BackupLoad_Energy_kWh |-> backup_load,
     Avg_GridLoad_W |-> grid_load * 10,
     Avg_BackupLoad_W |-> backup_load * 10,
     Avg_PV_W |-> pv * 10,
     Avg_SOC_Pct |-> soc]

RECURSIVE Flatten(_)
Flatten(ss) == IF ss = <<>> THEN <<>> ELSE Head(ss) \o Flatten(Tail(ss))

Reverse(s) == [i \in DOMAIN s |-> s[Len(s) + 1 - i]]

\* All sequences over V of length lo..hi.
SeqsOf(V, lo, hi) == UNION {[1..n -> V] : n \in lo..hi}

Jan(d) == <<2026, 1, d>>

\* The configuration main works with: pv_kwp and battery_nominal_kwh as
\* given, every other key at the default main gives it (inverter_kw is
\* pv_kwp / 1.3).  Capacities count hundredths of a kW or kWh.
DefaultConfig ==
    [pv_kwp |-> 650,
     inverter_kw |-> 500,
     battery_nominal_kwh |-> 1430,
     has_ev |-> FALSE,
     feedin_ratio |-> 0,
     additional_kwp |-> 0,
     tariff |-> [type |-> "flat", import_rate |-> 0],
     roi |-> <<>>,
     seasonal_factors |-> [k \in 1..12 |-> 100]]

\* The one file the records were read from.
OneFile == <<"solar_hourly_2026-01.csv">>

\* No section of the analysis has run.
NoAnalysis ==
    /\ error = <<>>
    /\ monthly_totals = <<>>
    /\ ev_days = {}
    /\ non_ev_days = {}
    /\ ev_info = <<>>
    /\ hourly = <<>>
    /\ weekday_weekend = <<>>
    /\ sizing = <<>>
    /\ battery = <<>>
    /\ panels = <<>>
    /\ peak_demand = <<>>
    /\ anomalies = <<>>
    /\ bill_impact = <<>>
    /\ roi = <<>>
    /\ trends = <<>>
    /\ battery_health = <<>>
    /\ projection = <<>>
    /\ output = <<>>

\* A run of the analysis: no exporter is at work.
NoResults ==
    /\ NoAnalysis
    /\ export = <<>>

NothingComputed ==
    /\ pc = "enrich"
    /\ filenames = OneFile
    /\ NoResults

\* --- a few hours with signed grid and battery flows, over two months (a
\* --- third or later hour is in the second month)
MaxRows == 2
RecordDates == {<<2026, 1, 1>>, <<2026, 2, 1>>}
GridValues == {-204, 0, 70}
FlowValues == {[bat |-> -30, pv |-> 0], [bat |-> 0, pv |-> 100],
               [bat |-> 200, pv |-> 100]}
RecordSamples == [date : RecordDates, grid : GridValues, flow : FlowValues]
AdditionalKwp == {0, 325, 3250}

Init ==
    /\ \E pick \in {p \in SeqsOf(RecordSamples, 1, MaxRows) :
                      \A i \in DOMAIN p : i > 2 => p[i].date = <<2026, 2, 1>>} :
          rows = [i \in DOMAIN pick |->
                     RawRow(pick[i].date, i - 1, pick[i].flow.pv,
                            pick[i].flow.bat, pick[i].grid, 100, 6, 50)]
    /\ \E additional_kwp \in AdditionalKwp :
          config = [DefaultConfig EXCEPT !.has_ev = TRUE,
                                         !.additional_kwp = additional_kwp,
                                         !.feedin_ratio = 5,
                                         !.tariff.import_rate = 140]
    /\ NothingComputed

Spec == Init /\ [][Next]_vars

\* --- whole days that differ in their number of rows and their load:
\* --- none or 8 days of one load, then a few days that are full (21 rows)
\* --- or one row short of full
MaxExtraDays == 2
BaseDayCounts == {0, 8}
BaseLoads == {40, 80}
ExtraDays ==
    {[len |-> 21, load |-> 40], [len |-> 21, load |-> 80],
     [len |-> 21, load |-> 160], [len |-> 20, load |-> 160]}

\* A day of n hourly rows, each with the same load.
LoadDay(d, n, load) ==
    [h \in 1..n |-> RawRow(Jan(d), h - 1, 0, 0, 0, load, 0, 50)]

InitEv ==
    /\ \E k \in BaseDayCounts, base \in BaseLoads,
          extra \in SeqsOf(ExtraDays, 0, MaxExtraDays) :
          /\ k + Len(extra) > 0
          /\ rows = Flatten([d \in 1..k |-> LoadDay(d, 21, base)])
                    \o Flatten([e \in DOMAIN extra |->
                                   LoadDay(k + e, extra[e].len, extra[e].load)])
    /\ \E has_ev \in BOOLEAN :
          config = [DefaultConfig EXCEPT !.has_ev = has_ev]
    /\ NothingComputed

SpecEv == InitEv /\ [][Next]_vars

\* --- one day with any short sequence of state-of-charge values
MaxScanLen == 5
SocValues == {20, 55, 85}

InitScan ==
    /\ \E soc \in SeqsOf(SocValues, 1, MaxScanLen), descending \in BOOLEAN :
          LET by_hour == [h \in DOMAIN soc |->
                             RawRow(Jan(1), h - 1, 0, -100, 0, 100, 6, soc[h])]
          IN  rows = IF descending THEN Reverse(by_hour) ELSE by_hour
    /\ config = [DefaultConfig EXCEPT !.has_ev = TRUE]
    /\ NothingComputed

SpecScan == InitScan /\ [][Next]_vars

\* --- several days, each a short state-of-charge pattern, full or not
MaxBatteryDays == 2
SocPatterns == {<<85, 50, 20>>, <<85, 60, 55>>, <<50, 85, 50>>}
BatteryValues == {-130, 0}
BatteryDaySamples == [soc : SocPatterns, bat : BatteryValues, full : BOOLEAN]

\* The pattern's hours; a full day goes on at the last value up to 21 rows.
BatteryDay(d, sample) ==
    LET n == IF sample.full THEN 21 ELSE Len(sample.soc)
    IN  [h \in 1..n |->
            RawRow(Jan(d), h - 1, 0, sample.bat, 0, 100, 6,
                   sample.soc[Min(h, Len(sample.soc))])]

InitBattery ==
    /\ \E pick \in SeqsOf(BatteryDaySamples, 1, MaxBatteryDays) :
          rows = Flatten([d \in DOMAIN pick |-> BatteryDay(d, pick[d])])
    /\ config = [DefaultConfig EXCEPT !.has_ev = TRUE]
    /\ NothingComputed

SpecBattery == InitBattery /\ [][Next]_vars

\* --- many days of one row each, with the day's PV energy
MaxPrefix == 3
MidLengths == {0, 12}
SuffixLengths == {0, 1, 2}
PvValues == {0, 580, 1000}

InitAnomaly ==
    /\ \E prefix \in SeqsOf(PvValues, 0, MaxPrefix), mid \in MidLengths,
          suffix \in UNION {[1..n -> PvValues] : n \in SuffixLengths},
          descending \in BOOLEAN :
          LET pv == prefix \o [i \in 1..mid |-> 1000] \o suffix
              by_date == [d \in DOMAIN pv |->
                             RawRow(Jan(d), 12, pv[d], 0, 0, 100, 6, 50)]
          IN  /\ pv /= <<>>
              /\ rows = IF descending THEN Reverse(by_date) ELSE by_date
    /\ config = [DefaultConfig EXCEPT !.has_ev = TRUE]
    /\ NothingComputed

SpecAnomaly == InitAnomaly /\ [][Next]_vars

\* --- days of equal PV with one day scaled to 10% of the others
MaxHistory == 15
MaxAfter == 2
NeighbourPv == {0, 1000, 2500}

InitInject ==
    /\ \E history \in 0..MaxHistory, after \in 0..MaxAfter,
          p \in NeighbourPv, descending \in BOOLEAN :
          LET pv == [d \in 1..(history + 1 + after) |->
                        IF d = history + 1 THEN p \div 10 ELSE p]
              by_date == [d \in DOMAIN pv |->
                             RawRow(Jan(d), 12, pv[d], 0, 0, 100, 6, 50)]
          IN  rows = IF descending THEN Reverse(by_date) ELSE by_date
    /\ config = [DefaultConfig EXCEPT !.has_ev = TRUE]
    /\ NothingComputed

SpecInject == InitInject /\ [][Next]_vars

\* --- days, full or partial, with the same PV in each of their hours
MaxSizingDays == 2
SizingLengths == {3, 21}
SizingPv == {0, 100, 500}

InitSizing ==
    /\ \E pick \in SeqsOf([len : SizingLengths, pv : SizingPv],
                          1, MaxSizingDays) :
          rows = Flatten([d \in DOMAIN pick |->
                             [h \in 1..pick[d].len |->
                                 RawRow(Jan(d), h - 1, pick[d].pv, 0, 0,
                                        100, 6, 50)]])
    /\ config = DefaultConfig
    /\ NothingComputed

SpecSizing == InitSizing /\ [][Next]_vars

\* --- a few hours of load, import and export under several tariffs
MaxBillRows == 2
BillDates == {<<2026, 1, 1>>, <<2026, 2, 1>>}
BillLoads == {100, 500}
BillGrid == {-204, 0, 100}
BillSamples == [date : BillDates, load : BillLoads, grid : BillGrid]
FlatTariff == [type |-> "flat", import_rate |-> 140]
TwoTiers ==
    [type |-> "tiered", import_rate |-> 100,
     tiers |-> <<[threshold |-> 200, rate |-> 80],
                 [threshold |-> 400, rate |-> 120]>>]
ThreeTiers ==
    [type |-> "tiered", import_rate |-> 100,
     tiers |-> <<[threshold |-> 100, rate |-> 80],
                 [threshold |-> 300, rate |-> 120],
                 [threshold |-> 800, rate |-> 160]>>]
TouTariff ==
    [type |-> "tou", import_rate |-> 140,
     tou |-> [peak_hours |-> {1}, peak_rate |-> 180, offpeak_rate |-> 100]]
BillSettings ==
    {[tariff |-> FlatTariff, feedin_ratio |-> 0],
     [tariff |-> FlatTariff, feedin_ratio |-> 5],
     [tariff |-> TwoTiers, feedin_ratio |-> 5],
     [tariff |-> ThreeTiers, feedin_ratio |-> 0],
     [tariff |-> TouTariff, feedin_ratio |-> 5]}

InitBill ==
    /\ \E pick \in SeqsOf(BillSamples, 1, MaxBillRows) :
          rows = [i \in DOMAIN pick |->
                     RawRow(pick[i].date, i - 1, 100, 0, pick[i].grid,
                            pick[i].load, 0, 50)]
    /\ \E setting \in BillSettings :
          config = [DefaultConfig EXCEPT !.tariff = setting.tariff,
                                         !.feedin_ratio = setting.feedin_ratio]
    /\ NothingComputed

SpecBill == InitBill /\ [][Next]_vars

\* --- a day of rows billed at a flat rate, with and without an ROI
\* --- configuration; the month's savings come out negative, small or large
MaxRoiRows == 2
RoiSamples ==
    {[load |-> 100, grid |-> -300], [load |-> 100, grid |-> -100],
     [load |-> 100, grid |-> 0], [load |-> 500, grid |-> 0]}
RoiCosts == {0, 5110, 20000, 100000, 1400000}
RoiAges == {0, 25, 500}
RoiConfigs ==
    {<<>>, [system_age_years |-> 25]}
        \cup [total_cost : RoiCosts, system_age_years : RoiAges]

InitRoi ==
    /\ \E pick \in SeqsOf(RoiSamples, 1, MaxRoiRows) :
          rows = [i \in DOMAIN pick |->
                     RawRow(Jan(1), i - 1, 100, 0, pick[i].grid,
                            pick[i].load, 0, 50)]
    /\ \E roi_config \in RoiConfigs :
          config = [DefaultConfig EXCEPT !.tariff = FlatTariff,
                                         !.roi = roi_config]
    /\ NothingComputed

SpecRoi == InitRoi /\ [][Next]_vars

\* --- one row in each of the first months of a year (two days of rows in
\* --- January when extra_day), with and without seasonal factors
MaxMonths == 7
ProjectionPv == {0, 200}
ProjectionFactors == {DefaultConfig.seasonal_factors, (1 :> 50) @@ (2 :> 200)}

InitProjection ==
    /\ \E pv \in SeqsOf(ProjectionPv, 1, MaxMonths), extra_day \in BOOLEAN :
          rows = [m \in DOMAIN pv |->
                     RawRow(<<2026, m, 1>>, 12, pv[m], 0, 0, 100, 6, 50)]
                 \o (IF extra_day
                     THEN <<RawRow(<<2026, 1, 2>>, 12, 100, 0, 100, 100, 6,
                                   50)>>
                     ELSE <<>>)
    /\ \E seasonal_factors \in ProjectionFactors :
          config = [DefaultConfig EXCEPT
                        !.seasonal_factors = seasonal_factors]
    /\ NothingComputed

SpecProjection == InitProjection /\ [][Next]_vars

\* --- one row in each of some months of a year, the months in any order
\* --- of appearance and not necessarily adjacent in the calendar
MaxTrendMonths == 4
TrendMonthOrders ==
    {order \in SeqsOf(1..MaxTrendMonths, 1, MaxTrendMonths) :
        \A i, j \in DOMAIN order : i /= j => order[i] /= order[j]}
TrendBattery == {-30, 200}

InitTrends ==
    /\ \E order \in TrendMonthOrders, bat \in TrendBattery :
          rows = [k \in DOMAIN order |->
                     RawRow(<<2026, 2 * order[k] - 1, 1>>, 12,
                            100 * order[k], IF k = 1 THEN bat ELSE 0 - bat,
                            0 - 20 * order[k], 100, 6, 50)]
    /\ config = DefaultConfig
    /\ NothingComputed

SpecTrends == InitTrends /\ [][Next]_vars

\* --- the data directory: no file, or one or two files with a few rows or
\* --- none at all
MaxFileRows == 2
FilePv == {0, 100}
FileNames == <<"solar_hourly_2026-01.csv", "solar_hourly_2026-02.csv">>
DataDirs ==
    UNION {[1..n -> SeqsOf(FilePv, 0, MaxFileRows)] : n \in 0..2}

\* load_csv_files for a data directory whose k-th file, in sorted order, has
\* one row for each entry of contents[k]: what it prints, the exception it
\* ends with and what it returns.
load_csv_files(contents) ==
    IF contents = <<>>
    THEN [printed |-> <<[error |->
                           "No solar_hourly_*.csv files found in data/"]>>,
          exc |-> <<"SystemExit">>,
          rows |-> <<>>,
          filenames |-> <<>>]
    ELSE [printed |-> <<>>,
          exc |-> <<>>,
          rows |-> Flatten([k \in DOMAIN contents |->
                      [i \in DOMAIN contents[k] |->
                          RawRow(<<2026, k, 1>>, i - 1, contents[k][i], 0, 0,
                                 100, 6, 50)]]),
          filenames |-> SubSeq(FileNames, 1, Len(contents))]

LoadCsv ==
    /\ pc = "load"
    /\ \E contents \in DataDirs :
          LET loaded == load_csv_files(contents)
          IN  /\ output' = loaded.printed
              /\ error' = loaded.exc
              /\ pc' = pc_after(loaded.exc, "enrich")
              /\ rows' = loaded.rows
              /\ filenames' = loaded.filenames
    /\ UNCHANGED <<config, monthly_totals, ev_days, non_ev_days, ev_info,
                   hourly, weekday_weekend, sizing, battery, panels,
                   peak_demand, anomalies, bill_impact, roi, trends,
                   battery_health, projection, export>>

InitInput ==
    /\ pc = "load"
    /\ rows = <<>>
    /\ filenames = <<>>
    /\ \E has_ev \in BOOLEAN :
          config = [DefaultConfig EXCEPT !.has_ev = has_ev]
    /\ NoResults

NextInput == LoadCsv \/ Next

SpecInput == InitInput /\ [][NextInput]_vars

\* --- months of records without any load, PV, battery charge or savings:
\* --- one sample for each month, as one row or as a full day of equal rows
MaxDegenerateMonths == 2
DegenerateSamples ==
    {[pv |-> 0, bat |-> 0, grid |-> 0, load |-> 0],
     [pv |-> 100, bat |-> 0, grid |-> 100, load |-> 0],
     [pv |-> 0, bat |-> 0, grid |-> -100, load |-> 100],
     [pv |-> 0, bat |-> -30, grid |-> 0, load |-> 30],
     [pv |-> 200, bat |-> 200, grid |-> 0, load |-> 0],
     [pv |-> 100, bat |-> 0, grid |-> 0, load |-> 100]}
DegenerateRoi == {<<>>, [total_cost |-> 20000, system_age_years |-> 200]}

InitDegenerate ==
    /\ \E pick \in SeqsOf(DegenerateSamples, 1, MaxDegenerateMonths),
          hours \in {1, 21} :
          rows = Flatten([m \in DOMAIN pick |->
                     [h \in 1..hours |->
                         RawRow(<<2026, m, 3>>, h - 1, pick[m].pv,
                                pick[m].bat, pick[m].grid, pick[m].load, 0,
                                50)]])
    /\ \E roi_config \in DegenerateRoi :
          config = [DefaultConfig EXCEPT !.has_ev = TRUE,
                                         !.tariff = FlatTariff,
                                         !.roi = roi_config]
    /\ NothingComputed

SpecDegenerate == InitDegenerate /\ [][Next]_vars

\* --- full days of equal or nearly equal load, then a few full days of one
\* --- high load, then possibly a day one row short of full with a high load
MaxHighDays == 2
LoadDayCounts == {3, 4, 5, 9}
HighLoads == {200, 400}

InitLoad ==
    /\ \E normal \in LoadDayCounts, high \in 0..MaxHighDays,
          level \in HighLoads, spread \in {0, 10}, partial \in BOOLEAN :
          /\ high = 0 => level = 200
          /\ rows = Flatten([d \in 1..normal |->
                                LoadDay(d, 21, 50 + spread * (d % 2))])
                    \o Flatten([d \in 1..high |->
                                   LoadDay(normal + d, 21, level)])
                    \o (IF partial
                        THEN LoadDay(normal + high + 1, 20, 400)
                        ELSE <<>>)
    /\ config = DefaultConfig
    /\ NothingComputed

SpecLoad == InitLoad /\ [][Next]_vars

\* --- inputs for the report's sections: any of the days from Friday 2 January
\* --- 2026 on, all full or all one row short of full, possibly with a record
\* --- of 1 February, with and without a ROI configuration and additional
\* --- panels
MaxReportDays == 3
ReportRoi == {<<>>, [total_cost |-> 20000, system_age_years |-> 200]}
ReportAdditionalKwp == {-100, 0, 200}

InitReport ==
    /\ \E days \in SUBSET (1..MaxReportDays), len \in {20, 21},
          second_month \in BOOLEAN :
          /\ days /= {}
          /\ rows = Flatten([d \in 1..MaxReportDays |->
                                IF d \in days
                                THEN [h \in 1..len |->
                                         RawRow(Jan(1 + d), h - 1, 100, 0, 20,
                                                50, 0, 50)]
                                ELSE <<>>])
                    \o (IF second_month
                        THEN <<RawRow(<<2026, 2, 1>>, 12, 100, 0, 20, 50, 0,
                                      50)>>
                        ELSE <<>>)
    /\ \E roi_config \in ReportRoi, additional_kwp \in ReportAdditionalKwp,
          has_ev \in BOOLEAN :
          config = [DefaultConfig EXCEPT !.has_ev = has_ev,
                                         !.tariff = FlatTariff,
                                         !.roi = roi_config,
                                         !.additional_kwp = additional_kwp]
    /\ NothingComputed

SpecReport == InitReport /\ [][Next]_vars

\* --- the same records in different orders: three days of two records and a
\* --- fourth day of three records with little PV, the fourth day's records
\* --- in any order, the whole file from first to last or from last to first
OrderPv == {5, 10, 20}
RowOrders ==
    {f \in [1..3 -> 1..3] : \A i, j \in 1..3 : f[i] = f[j] => i = j}

InitOrder ==
    /\ \E pv \in [1..3 -> OrderPv], order \in RowOrders,
          descending \in BOOLEAN :
          LET history == Flatten([d \in 1..3 |->
                             <<RawRow(Jan(d), 9, 50, -100, 0, 100, 0, 80),
                               RawRow(Jan(d), 15, 50, -100, 0, 100, 0, 40)>>])
              last_day == [h \in 1..3 |->
                              RawRow(Jan(4), 9 + h, pv[h], -200, 0, 100, 0,
                                     120 - 30 * h)]
              by_date == history \o [k \in 1..3 |-> last_day[order[k]]]
          IN  rows = IF descending THEN Reverse(by_date) ELSE by_date
    /\ config = DefaultConfig
    /\ NothingComputed

SpecOrder == InitOrder /\ [][Next]_vars

---------------------------------------------------------------------------
(* The API exporters (soliscloud-export-hourly and export-hourly-deye):    *)
(* main's loop over the days of the month and what follows it.  The two    *)
(* scripts have the same loop; they differ in the request they send.  What *)
(* the API answers for a day is one of                                     *)
(*   "raise":   the request raises (HTTP or network error),                *)
(*   "empty":   no records,                                                *)
(*   "records": records that give one hourly row,                          *)
(*   "no_time": records without a time, which give no hourly row,          *)
(*   "nan_soc": records whose state of charge is not a number, for which   *)
(*              process_hourly raises ValueError (int(min(soc_values))).   *)

\* calendar.monthrange(year, month)[1]
monthrange(year, month) ==
    IF month = 12 THEN 31
    ELSE days_before_month(year, month + 1) - days_before_month(year, month)

\* if day < num_days: time.sleep(0.5); the pause counts tenths of a second.
pause(day, num_days) == IF day < num_days THEN <<<<"sleep", 5>>>> ELSE <<>>

\* One pass of the loop body for `day`, the API answering with `answer`.
loop_body(e, answer) ==
    LET day == e.day
        fetched == [e EXCEPT !.log = @ \o <<<<"fetch", day>>>>]
        paused == [fetched EXCEPT !.log = @ \o pause(day, e.num_days),
                                  !.day = day + 1]
    IN  CASE answer = "raise" ->
                 [paused EXCEPT !.failed_days = @ \o <<day>>]
          [] answer = "empty" ->
                 [paused EXCEPT !.empty_days = @ \o <<day>>]
          [] answer = "nan_soc" ->
                 [fetched EXCEPT !.status = "raised"]
          [] answer = "no_time" ->
                 [paused EXCEPT !.days_processed = @ + 1]
          [] OTHER ->
                 [paused EXCEPT !.days_processed = @ + 1,
                                !.all_hourly_rows = @ \o <<day>>]

\* After the loop: sys.exit(1) without rows, else the CSV is written.
after_loop(e) ==
    IF e.all_hourly_rows = <<>>
    THEN [e EXCEPT !.status = "exit_1"]
    ELSE [e EXCEPT !.status = "written", !.csv = <<e.all_hourly_rows>>]

Answers == {"raise", "empty", "records", "no_time", "nan_soc"}

\* The answers for the first MaxOddDay days and for the last day are any;
\* on every other day the API answers in the month's usual way.
MaxOddDay == 2

answers_for(e) ==
    IF e.day <= MaxOddDay \/ e.day = e.num_days THEN Answers ELSE {e.usual}

SolisCloudDay ==
    /\ export /= <<>>
    /\ export.exporter = "soliscloud"
    /\ export.status = "loop"
    /\ export.day <= export.num_days
    /\ \E answer \in answers_for(export) :
          export' = loop_body(export, answer)
    /\ UNCHANGED <<rows, config, pc, filenames, error, monthly_totals,
                   ev_days, non_ev_days, ev_info, hourly, weekday_weekend,
                   sizing, battery, panels, peak_demand, anomalies,
                   bill_impact, roi, trends, battery_health, projection,
                   output>>

SolisCloudEnd ==
    /\ export /= <<>>
    /\ export.exporter = "soliscloud"
    /\ export.status = "loop"
    /\ export.day > export.num_days
    /\ export' = after_loop(export)
    /\ UNCHANGED <<rows, config, pc, filenames, error, monthly_totals,
                   ev_days, non_ev_days, ev_info, hourly, weekday_weekend,
                   sizing, battery, panels, peak_demand, anomalies,
                   bill_impact, roi, trends, battery_health, projection,
                   output>>

DeyeDay ==
    /\ export /= <<>>
    /\ export.exporter = "deye"
    /\ export.status = "loop"
    /\ export.day <= export.num_days
    /\ \E answer \in answers_for(export) :
          export' = loop_body(export, answer)
    /\ UNCHANGED <<rows, config, pc, filenames, error, monthly_totals,
                   ev_days, non_ev_days, ev_info, hourly, weekday_weekend,
                   sizing, battery, panels, peak_demand, anomalies,
                   bill_impact, roi, trends, battery_health, projection,
                   output>>

DeyeEnd ==
    /\ export /= <<>>
    /\ export.exporter = "deye"
    /\ export.status = "loop"
    /\ export.day > export.num_days
    /\ export' = after_loop(export)
    /\ UNCHANGED <<rows, config, pc, filenames, error, monthly_totals,
                   ev_days, non_ev_days, ev_info, hourly, weekday_weekend,
                   sizing, battery, panels, peak_demand, anomalies,
                   bill_impact, roi, trends, battery_health, projection,
                   output>>

\* The months asked for: February and January 2026.
TargetMonths == {<<2026, 2>>, <<2026, 1>>}

InitExport ==
    /\ \E exporter \in {"soliscloud", "deye"}, target_month \in TargetMonths,
          usual \in {"raise", "empty", "records"} :
          export = <<>> @@
              [exporter |-> exporter,
               num_days |-> monthrange(target_month[1], target_month[2]),
               usual |-> usual,
               day |-> 1,
               all_hourly_rows |-> <<>>,
               failed_days |-> <<>>,
               empty_days |-> <<>>,
               days_processed |-> 0,
               log |-> <<>>,
               status |-> "loop",
               csv |-> <<>>]
    /\ rows = <<>>
    /\ config = DefaultConfig
    /\ pc = "export"
    /\ filenames = <<>>
    /\ NoAnalysis

NextExport == SolisCloudDay \/ SolisCloudEnd \/ DeyeDay \/ DeyeEnd

SpecExport == InitExport /\ [][NextExport]_vars

---------------------------------------------------------------------------
(* Properties *)

\* Which sections have run.
Enriched ==
    pc \in { "monthly_totals", "ev_detection", "patterns", "system_sizing",
            "battery_analysis", "additional_panels", "peak_demand",
            "anomalies", "bill_impact", "roi", "trends", "battery_health",
            "annual_projection", "report", "done"}
MonthlyTotalsDone ==
    pc \in { "ev_detection", "patterns", "system_sizing",
            "battery_analysis", "additional_panels", "peak_demand",
            "anomalies", "bill_impact", "roi", "trends", "battery_health",
            "annual_projection", "report", "done"}
EvDetectionDone ==
    pc \in { "patterns", "system_sizing", "battery_analysis",
            "additional_panels", "peak_demand", "anomalies", "bill_impact",
            "roi", "trends", "battery_health", "annual_projection",
            "report", "done"}
PatternsDone ==
    pc \in { "system_sizing", "battery_analysis", "additional_panels",
            "peak_demand", "anomalies", "bill_impact", "roi", "trends",
            "battery_health", "annual_projection", "report", "done"}
SystemSizingDone ==
    pc \in { "battery_analysis", "additional_panels", "peak_demand",
            "anomalies", "bill_impact", "roi", "trends", "battery_health",
            "annual_projection", "report", "done"}
BatteryAnalysisDone ==
    pc \in { "additional_panels", "peak_demand", "anomalies", "bill_impact",
            "roi", "trends", "battery_health", "annual_projection",
            "report", "done"}
AdditionalPanelsDone ==
    pc \in { "peak_demand", "anomalies", "bill_impact", "roi", "trends",
            "battery_health", "annual_projection", "report", "done"}
PeakDemandDone ==
    pc \in { "anomalies", "bill_impact", "roi", "trends", "battery_health",
            "annual_projection", "report", "done"}
AnomaliesDone ==
    pc \in { "bill_impact", "roi", "trends", "battery_health",
            "annual_projection", "report", "done"}
BillImpactDone ==
    pc \in { "roi", "trends", "battery_health", "annual_projection",
            "report", "done"}
RoiDone ==
    pc \in { "trends", "battery_health", "annual_projection", "report",
            "done"}
TrendsDone ==
    pc \in { "battery_health", "annual_projection", "report", "done"}
BatteryHealthDone ==
    pc \in { "annual_projection", "report", "done"}
AnnualProjectionDone ==
    pc \in { "report", "done"}
ReportDone == pc = "done"

\* The input seen as a set of row positions.
Dates == {rows[i].Date : i \in DOMAIN rows}
Months == {SubSeq(d, 1, 2) : d \in Dates}
RowsOn(d) == {i \in DOMAIN rows : rows[i].Date = d}
RowsIn(m) == {i \in DOMAIN rows : SubSeq(rows[i].Date, 1, 2) = m}
FullDays == {d \in Dates : Cardinality(RowsOn(d)) > 20}

ExactlyOneNonZero(a, b) == (a /= 0 /\ b = 0) \/ (a = 0 /\ b /= 0)

\* C1 as claimed: after enrich every record has exactly one of import and
\* export non-zero, and exactly one of charge and discharge non-zero.
C1_ExactlyOneNonZero ==
    Enriched =>
        \A i \in DOMAIN rows :
            /\ ExactlyOneNonZero(rows[i].Grid_Import_kWh,
                                 rows[i].Grid_Export_kWh)
            /\ ExactlyOneNonZero(rows[i].Battery_Charge_kWh,
                                 rows[i].Battery_Discharge_kWh)

\* C1 amended: after enrich every record has at most one of import and export
\* non-zero, and one of them is non-zero exactly when the signed grid energy
\* is non-zero (import for a negative value, export for a positive one); the
\* same holds of charge and discharge and the signed battery energy.
C1_SignSplit ==
    Enriched =>
        \A i \in DOMAIN rows :
            LET r == rows[i]
            IN  /\ r.Grid_Import_kWh = 0 \/ r.Grid_Export_kWh = 0
                /\ r.Grid_Import_kWh /= 0 <=> r.Grid_Energy_kWh < 0
                /\ r.Grid_Export_kWh /= 0 <=> r.Grid_Energy_kWh > 0
                /\ r.Battery_Charge_kWh = 0 \/ r.Battery_Discharge_kWh = 0
                /\ r.Battery_Charge_kWh /= 0 <=> r.Battery_Energy_kWh > 0
                /\ r.Battery_Discharge_kWh /= 0 <=> r.Battery_Energy_kWh < 0

\* An enriched input with a record whose net grid and battery energy are both
\* zero next to a record that imports and charges.
C1_Witness ==
    /\ Enriched
    /\ \E i \in DOMAIN rows :
          /\ rows[i].Grid_Energy_kWh = 0 /\ rows[i].Battery_Energy_kWh = 0
          /\ rows[i].Grid_Import_kWh = 0 /\ rows[i].Grid_Export_kWh = 0
    /\ \E i \in DOMAIN rows :
          rows[i].Grid_Import_kWh > 0 /\ rows[i].Battery_Charge_kWh > 0

C3_RateNonNegative ==
    MonthlyTotalsDone =>
        \A m \in DOMAIN monthly_totals :
            monthly_totals[m].self_consumption_rate >= 0

\* The total load of a day.
DayLoad(d) == SumOver([i \in DOMAIN rows |-> rows[i].Load_kWh], RowsOn(d))

\* The total load of each of the days S.
DayLoads(S) == Tabulated([d \in S |-> DayLoad(d)])

\* load > avg_load + 8 and load > avg_load + 0.3 * avg_load, with
\* avg_load = total / n, each multiplied by 10 * n.
AboveEvThreshold(load, total, n) ==
    /\ 10 * n * load > 10 * total + 8000 * n
    /\ 10 * n * load > 13 * total

\* C4: detect_ev_days partitions the full days: the EV and non-EV sets are
\* disjoint, their union is the set of days with more than 20 records, and a
\* full day is an EV day exactly when its load is above
\* avg_load + max(8, 0.3 * avg_load), avg_load the mean load of the full days.
C4_EvPartition ==
    (EvDetectionDone /\ config.has_ev) =>
        LET full == FullDays
            n == Cardinality(full)
            load == DayLoads(full)
            total == SumOver(load, full)
        IN  /\ ev_days \cap non_ev_days = {}
            /\ ev_days \cup non_ev_days = full
            /\ \A d \in full :
                  d \in ev_days <=> AboveEvThreshold(load[d], total, n)

\* EV detection has split an input with a partial day into both kinds of day.
C4_Witness ==
    /\ EvDetectionDone /\ config.has_ev
    /\ ev_days /= {} /\ non_ev_days /= {}
    /\ Dates \ FullDays /= {}

\* Day d is the further day among the full days, whose loads are `load`:
\* there are at least 8 others and its load is twice the load that all of
\* them share.
IsFurtherDay(d, load) ==
    /\ Cardinality(DOMAIN load \ {d}) >= 8
    /\ \A o \in DOMAIN load \ {d} : 2 * load[o] = load[d]

\* C5 as claimed: with at least 8 full days of load L and one further full
\* day of load 2 * L, the further day is an EV day, for every L.
C5_DoubleLoadIsEv ==
    (EvDetectionDone /\ config.has_ev) =>
        LET load == DayLoads(FullDays)
        IN  \A d \in DOMAIN load : IsFurtherDay(d, load) => d \in ev_days

\* C5 amended: with n >= 8 full days of load L and one further full day of
\* load 2 * L, the further day is an EV day exactly when n * L > 8 * (n + 1)
\* kWh; so it is one for every L > 9 kWh.
C5_DoubleLoadIsEvAboveFloor ==
    (EvDetectionDone /\ config.has_ev) =>
        LET load == DayLoads(FullDays)
            n == Cardinality(DOMAIN load) - 1
        IN  \A d \in DOMAIN load :
                IsFurtherDay(d, load) =>
                    /\ d \in ev_days <=> n * load[d] > 1600 * (n + 1)
                    /\ load[d] > 1800 => d \in ev_days

\* The further day of such an input has been classified as an EV day.
C5_Witness ==
    /\ EvDetectionDone /\ config.has_ev
    /\ LET load == DayLoads(FullDays)
       IN  \E d \in DOMAIN load : IsFurtherDay(d, load) /\ d \in ev_days

\* C6 as claimed: with no full day the classifier returns empty sets and a
\* summary whose counts ev_day_count, non_ev_day_count and total_full_days
\* are 0.
C6_ZeroFullDaysSummary ==
    (EvDetectionDone /\ config.has_ev /\ FullDays = {}) =>
        /\ ev_days = {} /\ non_ev_days = {}
        /\ {"ev_day_count", "non_ev_day_count", "total_full_days"}
               \subseteq DOMAIN ev_info
        /\ ev_info.ev_day_count = 0
        /\ ev_info.non_ev_day_count = 0
        /\ ev_info.total_full_days = 0


\* The rows of day d that come before row i in hour order.
RowsBefore(i, d) == {j \in RowsOn(d) : rows[j].Hour < rows[i].Hour}

\* The state-of-charge values of day d in hour order.
SocByHour(d) ==
    LET on == RowsOn(d)
        n == Cardinality(on)
    IN  SubSeq([k \in 1..n |->
                   rows[CHOOSE i \in on :
                           Cardinality(RowsBefore(i, d)) = k - 1].Avg_SOC_Pct],
               1, n)

\* Positions a..b of soc are a stretch in which the value never rises.
NeverRises(soc, a, b) == \A k \in a..(b - 1) : soc[k] >= soc[k + 1]

\* The largest first-minus-last over all such stretches.
DeepestDrop(soc) ==
    LET stretches == {p \in (DOMAIN soc) \X (DOMAIN soc) :
                         p[1] <= p[2] /\ NeverRises(soc, p[1], p[2])}
        drops == {soc[p[1]] - soc[p[2]] : p \in stretches}
    IN  CHOOSE x \in drops : \A y \in drops : y <= x

\* C7: for every day the scan ends with best_drop the largest drop over all
\* contiguous stretches of the hour-ordered state of charge that never rise
\* (0 without a strict decrease), and best_start..best_end is such a stretch
\* with that drop.
C7_DeepestRun ==
    BatteryAnalysisDone =>
        \A d \in Dates :
            LET soc == SocByHour(d)
                best == battery.best_run[d]
            IN  /\ best.best_drop = DeepestDrop(soc)
                /\ 0 <= best.best_start
                /\ best.best_start <= best.best_end
                /\ best.best_end < Len(soc)
                /\ NeverRises(soc, best.best_start + 1, best.best_end + 1)
                /\ soc[best.best_start + 1] - soc[best.best_end + 1]
                       = best.best_drop

\* The scan has found a best run that starts after the first hour, spans a
\* pair of equal values and is not the day's only decrease.
C7_Witness ==
    /\ BatteryAnalysisDone
    /\ \E d \in Dates :
          LET soc == SocByHour(d)
              best == battery.best_run[d]
          IN  /\ best.best_start >= 1
              /\ best.best_drop > 30
              /\ \E k \in (best.best_start + 1)..best.best_end :
                    soc[k] = soc[k + 1]
              /\ soc[1] > soc[2]

\* The battery discharge of day d over the hours of its best run.
WindowDischarge(d) ==
    LET best == battery.best_run[d]
    IN  SumOver([i \in DOMAIN rows |-> rows[i].Battery_Discharge_kWh],
                {i \in RowsOn(d) :
                    Cardinality(RowsBefore(i, d))
                        \in best.best_start..best.best_end})

\* The k-th smallest of the quotients e.
KthSmallest(e, k) ==
    CHOOSE x \in Range(e) :
        /\ Cardinality({i \in DOMAIN e : RatLess(e[i], x)}) < k
        /\ Cardinality({i \in DOMAIN e : ~RatLess(x, e[i])}) >= k

\* estimated_usable_kwh as it would be reported if exactly the days in
\* `days` gave an estimate discharge / (drop / 100): the median, rounded to
\* one decimal, or 0.9 times the nominal capacity without such a day.
ReportedUsable(days) ==
    IF days = {} THEN RoundDiv(config.battery_nominal_kwh * 9, 100)
    ELSE LET order == sorted_date_set(days)
             n == Len(order)
             e == SubSeq([k \in 1..n |->
                             Rat(WindowDischarge(order[k]) * 100,
                                 battery.best_run[order[k]].best_drop)], 1, n)
             lo == KthSmallest(e, (n + 1) \div 2)
             hi == KthSmallest(e, (n \div 2) + 1)
         IN  RoundDiv(lo[1] * hi[2] + hi[1] * lo[2], 2 * lo[2] * hi[2] * 10)

DeepDays == {d \in Dates : battery.best_run[d].best_drop > 30}

C9_OnlyFullDaysEstimate ==
    BatteryAnalysisDone =>
        LET days == {d \in DeepDays \cap FullDays : WindowDischarge(d) > 0}
        IN  /\ battery.estimated_usable_kwh = ReportedUsable(days)
            /\ battery.usable_estimate_days = Cardinality(days)

\* The PV energy of a day.
DayPv(d) == SumOver([i \in DOMAIN rows |-> rows[i].PV_Energy_kWh], RowsOn(d))

\* The day at position i (from 0) of the days in ascending order is below 60%
\* of the mean over the min(i, 14) days just before it, that mean being
\* positive; pv holds the days' energies in that order.
BelowRollingMean(pv, i) ==
    LET k == Min(i, 14)
        total == SumSeq(SubSeq(pv, i - k + 1, i))
    IN  i >= 3 /\ total > 0 /\ 10 * k * pv[i + 1] < 6 * total

\* C10: the PV anomaly list holds, in ascending date order, exactly the days
\* at a position i >= 3 whose PV is below 60% of the positive mean PV of the
\* min(i, 14) days immediately before them.
C10_PvAnomalies ==
    AnomaliesDone =>
        LET days == sorted_date_set(Dates)
            n == Len(days)
            pv == SubSeq([k \in 1..n |-> DayPv(days[k])], 1, n)
            flagged == SelectSeq([k \in 1..n |-> k - 1],
                                 LAMBDA i : BelowRollingMean(pv, i))
        IN  [k \in DOMAIN anomalies.pv |-> anomalies.pv[k].date]
                = [k \in DOMAIN flagged |-> days[flagged[k] + 1]]

\* From rows in descending date order, the day at position 15 was reported
\* and the day at position 3 was not.
C10_Witness ==
    /\ AnomaliesDone
    /\ Len(rows) >= 16
    /\ rows[1].Date = Jan(Len(rows))
    /\ \E k \in DOMAIN anomalies.pv : anomalies.pv[k].date = Jan(16)
    /\ \A k \in DOMAIN anomalies.pv : anomalies.pv[k].date /= Jan(4)

\* The dates of a list of anomaly entries.
DatesOf(entries) == {entries[k].date : k \in DOMAIN entries}

\* C12 as claimed: every date in the pv, load or battery anomaly list is a
\* day with more than 20 hourly records.
C12_AnomaliesOverFullDays ==
    AnomaliesDone =>
        DatesOf(anomalies.pv) \cup DatesOf(anomalies.load)
            \cup DatesOf(anomalies.battery) \subseteq FullDays

\* The greatest common divisor of the values of f over S (0 for no values).
RECURSIVE GcdOver(_, _)
GcdOver(f, S) ==
    IF S = {} THEN 0
    ELSE LET d == CHOOSE x \in S : TRUE
         IN  Gcd(f[d], GcdOver(f, S \ {d}))

\* Day d is above mean + 2 * stdev of the loads f of the days S, stdev the
\* sample standard deviation.  The loads are counted in a common unit u;
\* with n days of total t, the day's load l is above the mean by
\* (n * l - t) / n and the variance is sum((n * v - t) ** 2) / (n * n * (n - 1)).
AboveTwoSigma(f, S, d) ==
    LET u == GcdOver(f, S)
        n == Cardinality(S)
        l == Tabulated([x \in S |-> f[x] \div u])
        t == SumOver(l, S)
        sq == Tabulated([x \in S |-> (n * l[x] - t) * (n * l[x] - t)])
    IN  /\ u > 0
        /\ n * l[d] > t
        /\ sq[d] * (n - 1) > 4 * SumOver(sq, S)

\* C14: the load anomaly list is empty when fewer than 5 non-EV full days
\* exist; otherwise it reports, once each, exactly the non-EV full days whose
\* load is above mean + 2 * sample standard deviation of the loads of the
\* non-EV full days, and so never an EV day.
C14_LoadAnomalies ==
    AnomaliesDone =>
        LET days == non_ev_days \cap FullDays
            load == DayLoads(days)
            reported == DatesOf(anomalies.load)
        IN  /\ Len(anomalies.load) = Cardinality(reported)
            /\ reported \cap ev_days = {}
            /\ Cardinality(days) < 5 => anomalies.load = <<>>
            /\ Cardinality(days) >= 5 =>
                  reported = {d \in days : AboveTwoSigma(load, days, d)}

\* With an EV day set aside, one of at least 5 non-EV full days was reported
\* and the others were not.
C14_Witness ==
    /\ AnomaliesDone
    /\ ev_days /= {}
    /\ Cardinality(non_ev_days \cap FullDays) >= 5
    /\ Len(anomalies.load) = 1

\* Day d has at least 3 days before it, all other days have the same
\* positive PV, and the PV of d is 10% of that.
IsInjectedDay(d) ==
    /\ Cardinality({o \in Dates : DateLess(o, d)}) >= 3
    /\ DayPv(d) > 0
    /\ \A o \in Dates \ {d} : DayPv(o) = 10 * DayPv(d)

\* C11: a day whose PV is 10% of the (positive) PV of each of the other days
\* and which has at least 3 days before it is in the PV anomaly list with
\* deviation_pct < -30.
C11_InjectedDayReported ==
    AnomaliesDone =>
        \A d \in Dates :
            IsInjectedDay(d) =>
                \E k \in DOMAIN anomalies.pv :
                    /\ anomalies.pv[k].date = d
                    /\ anomalies.pv[k].deviation_pct < -30

\* Such a day with more than 14 days before it was reported, from rows in
\* descending date order.
C11_Witness ==
    /\ AnomaliesDone
    /\ DateLess(rows[Len(rows)].Date, rows[1].Date)
    /\ \E d \in Dates :
          /\ IsInjectedDay(d)
          /\ Cardinality({o \in Dates : DateLess(o, d)}) > 14
          /\ d \in DatesOf(anomalies.pv)

\* C13 as claimed: avg_daily_pv is the mean daily PV of the full days (0.0
\* without one), so that days with 20 or fewer records do not change it.
C13_AvgDailyPvOverFullDays ==
    SystemSizingDone =>
        LET full == FullDays
            total == SumOver([d \in full |-> DayPv(d)], full)
        IN  sizing.avg_daily_pv =
                IF full = {} THEN 0 ELSE RoundDiv(total, Cardinality(full))

\* C19: the energy added to an hour, PV * additional_kwp / current_kwp, goes
\* first to that hour's import (min(added, import)) and the rest to export;
\* so the two totals add up to the total added energy, the self-consumed
\* total is at most the total import, and both are >= 0.  Energies are
\* multiplied by current_kwp; the reported totals are the sums rounded.
C19_AddedEnergySplit ==
    (AdditionalPanelsDone /\ config.additional_kwp > 0) =>
        LET cur == config.pv_kwp
            all == DOMAIN rows
            added == [i \in all |-> rows[i].PV_Energy_kWh
                                        * config.additional_kwp]
            import == [i \in all |-> rows[i].Grid_Import_kWh * cur]
            self == panels.totals.extra_self_consumed
            exported == panels.totals.extra_exported
        IN  /\ self[2] = cur /\ exported[2] = cur
            /\ self[1] = SumOver([i \in all |-> Min(added[i], import[i])], all)
            /\ self[1] + exported[1] = SumOver(added, all)
            /\ self[1] <= SumOver(import, all)
            /\ self[1] >= 0 /\ exported[1] >= 0
            /\ panels.extra_self_consumed_total = RoundDiv(self[1], cur * 10)
            /\ panels.extra_exported_total = RoundDiv(exported[1], cur * 10)

\* Panels were added to an input with an hour whose added energy is above
\* its import, an hour whose added energy is below its import, and the
\* projection reports both self-consumed and exported energy.
C19_Witness ==
    /\ AdditionalPanelsDone /\ config.additional_kwp > 0
    /\ \E i \in DOMAIN rows :
          /\ rows[i].Grid_Import_kWh > 0
          /\ rows[i].PV_Energy_kWh * config.additional_kwp
                 > rows[i].Grid_Import_kWh * config.pv_kwp
    /\ \E i \in DOMAIN rows :
          /\ rows[i].PV_Energy_kWh > 0
          /\ rows[i].Grid_Import_kWh = 0
    /\ panels.extra_self_consumed_total > 0
    /\ panels.extra_exported_total > 0

\* The load, import and export of a month.
MonthLoad(m) == SumOver([i \in DOMAIN rows |-> rows[i].Load_kWh], RowsIn(m))
MonthImport(m) ==
    SumOver([i \in DOMAIN rows |-> rows[i].Grid_Import_kWh], RowsIn(m))
MonthExport(m) ==
    SumOver([i \in DOMAIN rows |-> rows[i].Grid_Export_kWh], RowsIn(m))

\* The thresholds of the tiers are positive and increase.
IncreasingThresholds(tiers) ==
    /\ tiers /= <<>>
    /\ tiers[1].threshold > 0
    /\ \A i \in 1..(Len(tiers) - 1) :
          tiers[i].threshold < tiers[i + 1].threshold

\* The bill for e kWh by bands: each tier's rate times the part of e between
\* the previous threshold and its own, plus the last rate times the part of
\* e beyond the last threshold.
BandBill(e, tiers) ==
    LET k == Len(tiers)
        lower == [i \in 1..k |-> IF i = 1 THEN 0 ELSE tiers[i - 1].threshold]
        part == [i \in 1..k |->
                    Max(0, Min(e, tiers[i].threshold) - lower[i])]
    IN  SumOver([i \in 1..k |-> tiers[i].rate * part[i]], 1..k)
            + tiers[k].rate * Max(0, e - tiers[k].threshold)

\* C15: under a tiered tariff with increasing thresholds every month's bill,
\* without solar for the month's load and with solar for its import, is the
\* bill by bands of that energy, reported rounded to a whole unit.
C15_TieredBillByBands ==
    (BillImpactDone /\ config.tariff.type = "tiered"
        /\ IncreasingThresholds(config.tariff.tiers)) =>
        \A m \in Months :
            LET bill == bill_impact.monthly[m]
                tiers == config.tariff.tiers
            IN  /\ bill.without_solar
                       = RoundDiv(BandBill(MonthLoad(m), tiers), 1000)
                /\ bill.with_solar
                       = RoundDiv(BandBill(MonthImport(m), tiers), 1000)

\* Under a tariff of three tiers a month's load went beyond the last
\* threshold while its import ended inside the second band.
C15_Witness ==
    /\ BillImpactDone /\ config.tariff.type = "tiered"
    /\ Len(config.tariff.tiers) = 3
    /\ \E m \in Months :
          /\ MonthLoad(m) > config.tariff.tiers[3].threshold
          /\ MonthImport(m) > config.tariff.tiers[1].threshold
          /\ MonthImport(m) < config.tariff.tiers[2].threshold

\* C16 as claimed: with a flat tariff and feed-in ratio 0 every month's
\* with_solar equals import times rate exactly and feedin_credit is 0.
C16_FlatBillExact ==
    (BillImpactDone /\ config.tariff.type = "flat"
        /\ config.feedin_ratio = 0) =>
        \A m \in Months :
            /\ bill_impact.monthly[m].with_solar * 1000
                   = MonthImport(m) * config.tariff.import_rate
            /\ bill_impact.monthly[m].feedin_credit = 0

\* C16 amended: with a flat tariff and feed-in ratio 0 every month's
\* with_solar equals import times rate rounded to a whole currency unit, and
\* feedin_credit is 0 whatever the month's export.
C16_FlatBillRounded ==
    (BillImpactDone /\ config.tariff.type = "flat"
        /\ config.feedin_ratio = 0) =>
        \A m \in Months :
            /\ bill_impact.monthly[m].with_solar
                   = RoundDiv(MonthImport(m) * config.tariff.import_rate, 1000)
            /\ bill_impact.monthly[m].feedin_credit = 0

\* With a flat tariff and feed-in ratio 0, a month that exports has a bill
\* with solar that is not a whole number before rounding.
C16_Witness ==
    /\ BillImpactDone /\ config.tariff.type = "flat"
    /\ config.feedin_ratio = 0
    /\ \E m \in Months :
          /\ MonthExport(m) > 0
          /\ (MonthImport(m) * config.tariff.import_rate) % 1000 /= 0
          /\ bill_impact.monthly[m].with_solar > 0

---------------------------------------------------------------------------
(* ROI *)

\* The figures compute_roi worked from.
RoiSavings == bill_impact.annual_savings

RoiCost == config_get(config.roi, "total_cost", 0)

\* S * 0.995^k for k = 0..25.
Degraded == year_savings_upto(RoiSavings, ModelledYears - 1)

\* The cumulative degraded savings reach the cost by the end of year j;
\* cumulative holds the sums of the first 0, 1, ..., 26 yearly savings.
ReachedBy(cumulative, j) == FxLeq(Fx(RoiCost), cumulative[j + 2])

RoiComputed ==
    /\ RoiDone
    /\ config.roi /= <<>>
    /\ RoiSavings > 0

\* C18: compute_roi returns None when no ROI configuration is supplied,
\* and a record holding only the "No savings to compute ROI" error (no
\* payback figure) when a configuration is supplied and annual savings are
\* <= 0; in both cases the section ends with a value.
C18_RoiNoneOrError ==
    RoiDone =>
        /\ config.roi = <<>> => roi = <<>>
        /\ (config.roi /= <<>> /\ RoiSavings <= 0) =>
               roi = [error |-> "No savings to compute ROI"]
        /\ (config.roi /= <<>> /\ RoiSavings > 0) =>
               /\ roi /= <<>>
               /\ "error" \notin DOMAIN roi

C18_Witness ==
    /\ RoiDone
    /\ config.roi /= <<>>
    /\ RoiSavings = 0
    /\ DOMAIN roi = {"error"}

---------------------------------------------------------------------------
(* Annual projection *)

\* C20: the projection's confidence is "low" for fewer than 3 months of
\* records, "moderate" for 3 to 5 months and "high" for 6 or more, whatever
\* the months' PV totals, day counts and seasonal factors.
C20_ConfidenceByMonthCount ==
    AnnualProjectionDone =>
        LET n == Cardinality(Months)
        IN  /\ projection.months_count = n
            /\ n < 3 => projection.confidence = "low"
            /\ (3 <= n /\ n <= 5) => projection.confidence = "moderate"
            /\ n >= 6 => projection.confidence = "high"

\* Six months, one of them without PV, under seasonal factors that differ
\* from month to month.
C20_Witness ==
    /\ AnnualProjectionDone
    /\ Cardinality(Months) = 6
    /\ projection.confidence = "high"
    /\ \E m \in Months : monthly_totals[m].total_pv = 0
    /\ config.seasonal_factors /= DefaultConfig.seasonal_factors

---------------------------------------------------------------------------
(* Enrichment *)

\* The columns load_csv_files gives a row.
RawFields ==
    {"Date", "Hour", "PV_Energy_kWh", "Battery_Energy_kWh", "Grid_Energy_kWh",
     "GridLoad_Energy_kWh", "BackupLoad_Energy_kWh", "Avg_GridLoad_W",
     "Avg_BackupLoad_W", "Avg_PV_W", "Avg_SOC_Pct"}

\* C28: enrich leaves every raw field of every record as it was, and it is
\* idempotent: enriching the enriched records once more changes nothing.
C28_EnrichIdempotent ==
    [][pc = "enrich" =>
          /\ DOMAIN rows' = DOMAIN rows
          /\ \A i \in DOMAIN rows :
                /\ \A f \in RawFields : rows'[i][f] = rows[i][f]
                /\ enrich(rows'[i]) = rows'[i]
                /\ enrich(enrich(rows[i])) = enrich(rows[i])]_vars

\* Enriched records of which one imports while the battery discharges and
\* another exports while the battery charges.
C28_Witness ==
    /\ Enriched
    /\ \E i \in DOMAIN rows :
          rows[i].Grid_Import_kWh > 0 /\ rows[i].Battery_Discharge_kWh > 0
    /\ \E i \in DOMAIN rows :
          rows[i].Grid_Export_kWh > 0 /\ rows[i].Battery_Charge_kWh > 0

---------------------------------------------------------------------------
(* ROI: reported payback figures *)

\* C30 as claimed: for annual savings > 0 and a total cost >= 0, simple_payback
\* and remaining_payback are null exactly when the cumulative degraded
\* savings over the 26 modelled years never reach the total cost, and when
\* they are reported remaining_payback is max(0, simple_payback - system_age).
C30_PaybackNullIffNeverReached ==
    (RoiComputed /\ RoiCost >= 0) =>
        LET degraded == Degraded
            cumulative == FxSums(degraded, Len(degraded))
            reached == ReachedBy(cumulative, ModelledYears - 1)
            age == system_age(config)
        IN  /\ (roi.simple_payback = <<>> /\ roi.remaining_payback = <<>>)
                   <=> ~reached
            /\ roi.simple_payback /= <<>> =>
                   /\ roi.remaining_payback /= <<>>
                   /\ 10 * roi.remaining_payback[1]
                          = Max(0, 10 * roi.simple_payback[1] - age)

---------------------------------------------------------------------------
(* Trends *)

\* C21: compute_trends returns None for records of fewer than 2 months;
\* otherwise it returns one entry for every pair of adjacent months, in
\* ascending order of the months: the number of entries is the number of
\* months minus 1, each entry's 'from' is the month immediately preceding its
\* 'to' among the months of the records, the first entry starts at the first
\* month and every entry starts where the one before it ends.
C21_TrendsAdjacentMonths ==
    TrendsDone =>
        LET months == Months
            n == Cardinality(months)
        IN  /\ n < 2 => trends = <<>>
            /\ n >= 2 =>
                  /\ trends /= <<>>
                  /\ DOMAIN trends[1] = 1..(n - 1)
                  /\ \A k \in DOMAIN trends[1] :
                        LET t == trends[1][k]
                        IN  /\ t.from \in months /\ t.to \in months
                            /\ MonthLess(t.from, t.to)
                            /\ ~\E m \in months :
                                   MonthLess(t.from, m) /\ MonthLess(m, t.to)
                            /\ k = 1 =>
                                   ~\E m \in months : MonthLess(m, t.from)
                            /\ k > 1 => t.from = trends[1][k - 1].to

\* Records of three months that appear out of calendar order and are not
\* adjacent in the calendar, with their two trend entries.
C21_Witness ==
    /\ TrendsDone
    /\ Cardinality(Months) = 3
    /\ \E i \in DOMAIN rows : \E j \in DOMAIN rows :
          i < j /\ DateLess(rows[j].Date, rows[i].Date)
    /\ trends /= <<>>
    /\ Len(trends[1]) = 2
    /\ trends[1][1].to[2] > trends[1][1].from[2] + 1

---------------------------------------------------------------------------
(* Input errors *)

\* C25: when no input records exist (no input file, or input files without
\* rows) the run does not complete: it ends with an error, an error ends the
\* run where it occurs, and nothing of a report is written to the output (at
\* most the error message).
C25_NoRecordsNoReport ==
    (pc /= "load" /\ rows = <<>>) =>
        /\ pc /= "done"
        /\ error /= <<>> <=> pc = "failed"
        /\ output /= <<>> => DOMAIN output[1] = {"error"}

\* Two input files without a row: the run has ended with the exception of
\* the sizing section and has written nothing.
C25_Witness ==
    /\ pc = "failed"
    /\ Len(filenames) = 2
    /\ rows = <<>>
    /\ error = <<"ValueError">>
    /\ output = <<>>
    /\ sizing = <<>>

---------------------------------------------------------------------------
(* Arithmetic degeneracies *)

\* The PV energy and the battery charge of a month.
MonthPv(m) == SumOver([i \in DOMAIN rows |-> rows[i].PV_Energy_kWh], RowsIn(m))
MonthCharge(m) ==
    SumOver([i \in DOMAIN rows |-> rows[i].Battery_Charge_kWh], RowsIn(m))

\* C24: records with zero total load, zero total PV, zero battery charge or
\* zero annual savings never make a section raise: no run ends with an
\* exception, and self_consumption_rate is 0 for a month without PV,
\* self_sufficiency is null for a month without load, the round-trip
\* efficiency is 0 for a month without charge, and the ROI is the error
\* record when a ROI configuration is given and the annual savings are 0.
C24_DegeneraciesNeverRaise ==
    /\ pc /= "failed"
    /\ error = <<>>
    /\ MonthlyTotalsDone =>
          \A m \in Months :
              /\ MonthPv(m) = 0 => monthly_totals[m].self_consumption_rate = 0
              /\ MonthLoad(m) = 0 => monthly_totals[m].self_sufficiency = <<>>
    /\ BatteryAnalysisDone =>
          \A m \in Months :
              MonthCharge(m) = 0 =>
                  battery.monthly_efficiency[m].efficiency = 0
    /\ (RoiDone /\ config.roi /= <<>> /\ bill_impact.annual_savings = 0) =>
          roi = [error |-> "No savings to compute ROI"]

\* A complete run over a month with neither load nor PV nor charge nor
\* savings, all of it one full day, with a ROI configuration.
C24_Witness ==
    /\ ReportDone
    /\ FullDays /= {}
    /\ config.roi /= <<>>
    /\ \E m \in Months :
          /\ MonthPv(m) = 0 /\ MonthLoad(m) = 0 /\ MonthCharge(m) = 0
          /\ monthly_totals[m].self_sufficiency = <<>>
          /\ battery.monthly_efficiency[m].efficiency = 0
    /\ bill_impact.annual_savings = 0
    /\ DOMAIN roi = {"error"}
    /\ output /= <<>>

---------------------------------------------------------------------------
(* Load anomalies: the number of days and the order of the entries *)

\* The full days among the non-EV days: the days the load detector uses.
QualifyingDays == FullDays \cap non_ev_days

\* C29: with exactly 5 qualifying non-EV full days (or fewer) the load
\* detector reports no day; a load anomaly is reported only when there are at
\* least 6 qualifying days.
C29_NoLoadAnomalyBelowSixDays ==
    AnomaliesDone =>
        /\ Cardinality(QualifyingDays) <= 5 => anomalies.load = <<>>
        /\ anomalies.load /= <<>> => Cardinality(QualifyingDays) >= 6

\* Exactly 5 qualifying days, four of equal load and one with several times
\* that load, next to a day that is not full: nothing is reported.
C29_Witness ==
    /\ AnomaliesDone
    /\ Cardinality(QualifyingDays) = 5
    /\ Cardinality(Dates) = 6
    /\ \E d \in QualifyingDays :
          \A e \in QualifyingDays \ {d} :
              /\ DayLoad(d) > 6 * DayLoad(e)
              /\ \A f \in QualifyingDays \ {d} : DayLoad(e) = DayLoad(f)
    /\ anomalies.load = <<>>

\* C23: the engine is deterministic: the report of a run is determined by the
\* records and the configuration.  In particular the anomalies section of
\* the report, with the order of the entries of its load list, is the same
\* for every order in which the loop over the non-EV day set can visit the
\* days.
C23_ReportDeterministic ==
    ReportDone =>
        \A order \in iteration_orders(load_anomaly_days(rows, non_ev_days)) :
            output[1].anomalies = compute_anomalies(rows, non_ev_days, order)

---------------------------------------------------------------------------
(* The report's sections *)

\* The keys of the output dict.
ReportKeys ==
    {"files", "total_rows", "date_range", "unique_days", "monthly_totals",
     "ev_detection", "hourly_patterns", "weekday_weekend", "system_sizing",
     "battery_analysis", "additional_panels", "peak_demand", "anomalies",
     "bill_impact", "roi", "trends", "battery_health", "annual_projection",
     "best_worst_days", "carbon_offset", "ev_detail",
     "self_consumption_rate"}

\* The Saturdays and Sundays of January 2026 and the first Sunday of
\* February, from the calendar.
Weekends2026 ==
    {<<2026, 1, d>> : d \in {3, 4, 10, 11, 17, 18, 24, 25, 31}}
        \cup {<<2026, 2, 1>>}

\* A comparison of weekdays and weekends is possible: among the full non-EV
\* days there is one of either kind.
SplitPossible ==
    /\ QualifyingDays \ Weekends2026 /= {}
    /\ QualifyingDays \cap Weekends2026 /= {}

\* C22: every report contains every section key, and each of roi,
\* additional_panels, weekday_weekend, trends and best_worst_days is null
\* exactly when it does not apply (no ROI configuration, additional capacity
\* <= 0, no weekday/weekend split possible, fewer than 2 months, no full
\* day): it is neither left out nor filled with zeros.
C22_EverySectionPresent ==
    ReportDone =>
        LET o == output[1]
        IN  /\ DOMAIN o = ReportKeys
            /\ o.roi = <<>> <=> config.roi = <<>>
            /\ o.additional_panels = <<>> <=> config.additional_kwp <= 0
            /\ o.weekday_weekend = <<>> <=> ~SplitPossible
            /\ o.trends = <<>> <=> Cardinality(Months) < 2
            /\ o.best_worst_days = <<>> <=> FullDays = {}

\* A report for records of one month without a full day, no ROI
\* configuration and no additional panels: none of the five sections applies.
C22_Witness ==
    /\ ReportDone
    /\ config.roi = <<>>
    /\ config.additional_kwp <= 0
    /\ Cardinality(Months) = 1
    /\ FullDays = {}
    /\ output[1].best_worst_days = <<>>

---------------------------------------------------------------------------
(* The order of the records *)

\* The records by ascending date and, within a day, by ascending hour.
InDateHourOrder(rs) ==
    LET by_day == Tabulated(group_by(rs, "row_day"))
        days == sorted_dates(group_keys(rs, "row_day"))
    IN  Flatten([k \in DOMAIN days |-> sort_by_hour(by_day[days[k]])])

\* C26: with at most one record per date and hour, the usable-capacity
\* estimate and the PV anomaly list do not depend on the order of the
\* records: they are what the same records give in ascending order of date
\* and hour.
C26_OrderIndependent ==
    AnomaliesDone =>
        LET ordered == InDateHourOrder(rows)
            in_order == compute_battery_analysis(ordered,
                                                 config.battery_nominal_kwh)
        IN  /\ battery.estimated_usable_kwh = in_order.estimated_usable_kwh
            /\ battery.usable_estimate_days = in_order.usable_estimate_days
            /\ anomalies.pv = compute_anomalies(ordered, non_ev_days, <<>>).pv

---------------------------------------------------------------------------
(* The exporters' month loop *)

\* fetch 1, pause, fetch 2, pause, ..., fetch n: a pause after every fetch
\* but the last.
FetchesAndPauses(n) ==
    [k \in 1..(2 * n - 1) |->
        IF k % 2 = 1 THEN <<"fetch", (k + 1) \div 2>> ELSE <<"sleep", 5>>]

\* C27: in the month loop of either exporter one fetch is attempted for each
\* day 1..num_days in ascending order, with a pause after every fetch but
\* the last day's; every day ends as exactly one of processed, failed or
\* empty, so that at the end of the loop days_processed + |failed_days| +
\* |empty_days| = num_days; a failed or empty day does not stop the later
\* days from being fetched; without any hourly row the script exits with
\* status 1 and writes no CSV.
C27_MonthLoop ==
    export /= <<>> =>
        /\ export.days_processed + Len(export.failed_days)
               + Len(export.empty_days)
             = Len(SelectSeq(export.log, LAMBDA x : x[1] = "fetch"))
        /\ \A i \in DOMAIN export.failed_days :
               \A j \in DOMAIN export.empty_days :
                   export.failed_days[i] /= export.empty_days[j]
        /\ export.status /= "loop" =>
               /\ export.log = FetchesAndPauses(export.num_days)
               /\ export.days_processed + Len(export.failed_days)
                      + Len(export.empty_days) = export.num_days
               /\ export.all_hourly_rows = <<>> =>
                      export.status = "exit_1" /\ export.csv = <<>>

===========================================================================
